---- MODULE Spec2Model ----
(***************************************************************************)
(* Model of the client-side logic of the financial-insights dashboard:     *)
(*   - the status poller of InsightGenerationModal and the page handlers   *)
(*     that open and close it (specification Spec);                        *)
(*   - the per-domain zustand cache stores (specification StoreSpec);      *)
(*   - the insight mutations of the overview and insights pages            *)
(*     (MutationSpec), the trigger handlers of the overview page followed  *)
(*     through their awaits with the clock (TriggerSpec), the data-quality *)
(*     badge (QualitySpec) and the step display of the modal (StepSpec);   *)
(*   - the app-user bootstrap of AuthProvider (AuthSpec) and the admin     *)
(*     gate of AdminLayout (AdminSpec).                                    *)
(* Timers and network requests are events that may happen in any order:    *)
(* JavaScript runs each callback to completion, so one action is one       *)
(* callback (an event handler, a timer callback, the continuation after an *)
(* await) together with the React effects its state updates cause.         *)
(***************************************************************************)
EXTENDS Integers, Sequences, FiniteSets, Bags, TLC

(***************************************************************************)
(* Bounds of the model.                                                    *)
(***************************************************************************)
MaxTimers == 2        \* timer handles that can be pending at once
MaxInflight == 2      \* GET /api/insights/status requests in flight at once
MaxPollCounter == 3   \* pollCounterRef values explored (the code tests < 3)
MaxPosts == 1         \* POST /api/insights/trigger requests in flight at once

(***************************************************************************)
(* Values.  null of a number-typed field is NullTime.  Pending timers of    *)
(* the same callback are interchangeable, so the pending timers are counted *)
(* per callback (TimerKinds) and a handle is the kind of the pending timer  *)
(* it names, NoHandle (null) or StaleHandle (the id of a timer that has     *)
(* fired: truthy, but clearTimeout of it does nothing).                     *)
(***************************************************************************)
NullTime == -1
NoHandle == "null"
StaleHandle == "stale"
TimerKinds == {"poll", "complete"}

\* Date.now() values at which a generation is triggered (ms)
TriggerTimes == {10000, 20000}
\* updated_at values of status snapshots (ms), chosen around the two gates of
\* each trigger time: for 10000, 4000 is before trigger - 5000, 8000 between
\* the gates and 9000 at trigger - 1000; for 20000, 19000 is at trigger - 1000
UpdatedAts == {NullTime, 4000, 8000, 9000, 19000}
\* for the statuses that only the first gate reads: missing, before it, after it
GateUpdatedAts == {NullTime, 4000, 19000}

\* SyncStatusResponse, InsightGenerationModal.tsx l.6-11
Snapshot(ss, step, err, ua) ==
    [sync_status |-> ss, sync_step |-> step, last_sync_error |-> err, updated_at |-> ua]

Snapshots ==
    { Snapshot("COMPLETED", "COMPLETED", "null", ua) : ua \in UpdatedAts }
    \cup { Snapshot("IN_PROGRESS", "GENERATING_INSIGHTS", "null", ua) : ua \in GateUpdatedAts }
    \cup { Snapshot("FAILED", "null", "boom", ua) : ua \in GateUpdatedAts }
    \cup { Snapshot("IDLE", "null", "null", ua) : ua \in GateUpdatedAts }

\* the optimistic state of l.29-34 and l.63-68; its updated_at is "now",
\* which the code never compares because sync_status is IN_PROGRESS
NowStamp == -2
Optimistic == Snapshot("IN_PROGRESS", "CONNECTING", "null", NowStamp)

NoTimers == [k \in TimerKinds |-> 0]
NoSnap == Snapshot("none", "null", "null", NullTime)

VARIABLES
    mounted,              \* the modal component instance is mounted
    isOpen,               \* showInsightModal of the page = prop isOpen
    triggerTimestamp,     \* triggerTimestamp of the page = prop triggeredAt
    triggerTimestampRef,  \* triggerTimestampRef.current
    status,               \* status (useState)
    notifyWhenReady,      \* notifyWhenReady (useState)
    notifyAwait,          \* handleNotifyClick is awaiting requestPermission()
    pollTimeoutRef,       \* pollTimeoutRef.current
    isMountedRef,         \* isMountedRef.current
    pollCounterRef,       \* pollCounterRef.current
    timers,               \* pending setTimeout callbacks, by handle
    inflight,             \* GET /api/insights/status requests in flight
    posts,                \* POST /api/insights/trigger requests in flight
    last,                 \* history: the last callback that ran
    \* ---- one cache store (specification StoreSpec) ----
    skind,                \* which store this is
    data,                 \* settings / aiConfig / data / insights / dashboard
    isLoading,            \* isLoading (aiLoading, isDashboardLoading)
    lastFetched,          \* lastFetched (aiLastFetched)
    error,                \* error (dashboardError)
    pendingFetchPromise,  \* the module-level promise reference is non-null
    requests,             \* network requests of the store's fetch in flight
    awaiting,             \* promises returned by fetch calls, not yet settled
    now,                  \* Date.now()
    lastCall,             \* history: the last store operation and its path
    lastFetchOutcome,     \* history: how the most recent fetch settled
    storedSinceClear,     \* history: data was stored since creation / clearX
    lastSettle,           \* history: how the promise of the last fetch settled
    \* ---- the session (AuthContext, part_014) ----
    session,              \* the signed-in user, NoSession when signed out
    signingOut,           \* signOut is awaiting POST /auth/signout
    lastAuth,             \* history: the last sign-in / sign-out step
    \* ---- one call of apiRequest (specification ApiSpec) ----
    apc,                  \* where the call is: idle, getSession, fetch, text,
                          \* json, refresh, returned, threw
    inBrowser,            \* typeof window !== 'undefined'
    attempts,             \* HTTP requests the call has sent
    refreshes,            \* refreshSession calls the call has made
    response,             \* the response of the last request sent
    thrown,               \* the error the call threw
    redirected,           \* the call has assigned window.location.href
    \* ---- history of the settings and cache stores (StoreSpec) ----
    untouchedSinceClear,  \* history: no fetch / update call since clearX
    disconnectAwait,      \* what handleDisconnect of the settings page awaits
    \* ---- insight mutations (specification MutationSpec) ----
    insights,             \* data.insights of the overview store, by insight_id
    actionLoadingId,      \* actionLoadingId of the mounted page
    expandedCardId,       \* expandedCardId of the mounted page
    route,                \* the page that is mounted: "overview", "insights"
    pageGen,              \* the instance of the page component that is mounted
    patches,              \* PATCH /api/insights/{id} requests in flight
    toast,                \* the type of the toast shown last (ToastContext)
    plast,                \* history: the last step of a page handler
    \* ---- trigger handlers with the clock (specification TriggerSpec) ----
    syncing,              \* syncing of the overview page
    showXeroModal,        \* showXeroModal of the overview page
    settingsXero,         \* settings of the store: null, or is_connected
    truns,                \* runs of the trigger handlers at an await
    \* ---- the app user of AuthProvider (specification AuthSpec) ----
    appUser,              \* appUser (useState)
    fetchingRef,          \* fetchingRef.current
    meRequests,           \* GET /auth/me requests in flight
    loading,              \* loading (useState)
    getSessionPending,    \* the getSession() of the init effect is pending
    \* ---- the step display of the modal (specification StepSpec) ----
    stepStatuses,         \* getStepStatus of steps 1..4 at the last render
    \* ---- the data-quality badge (specification QualitySpec) ----
    signals,              \* the confidence fields that data / healthScore hold
    warnings,             \* healthScore.data_quality.warnings.length
    dataQuality,          \* dataQuality of the overview page
    \* ---- AdminLayout (specification AdminSpec) ----
    isAuthorized,         \* isAuthorized (useState)
    adminUser,            \* user of useAuth(): 0 is null, n the n-th object
    probes,               \* GET /api/admin/dashboard probes in flight
    adminNav,             \* the layout is shown, is being left, has been left
    verdicts              \* history: how the probes of this layout settled

pvars == <<mounted, isOpen, triggerTimestamp, triggerTimestampRef, status,
           notifyWhenReady, notifyAwait, pollTimeoutRef, isMountedRef,
           pollCounterRef, timers, inflight, posts, last>>

svars == <<skind, data, isLoading, lastFetched, error, pendingFetchPromise,
           requests, awaiting, now, lastCall, lastFetchOutcome, storedSinceClear,
           lastSettle, untouchedSinceClear, disconnectAwait>>

avars == <<session, signingOut, lastAuth>>

cvars == <<apc, inBrowser, attempts, refreshes, response, thrown, redirected>>

\* the state of the pages and of the providers
xvars == <<insights, actionLoadingId, expandedCardId, route, pageGen, patches,
           toast, plast, syncing, showXeroModal, settingsXero, truns,
           appUser, fetchingRef, meRequests, loading, getSessionPending,
           stepStatuses, signals, warnings, dataQuality,
           isAuthorized, adminUser, probes, adminNav, verdicts>>

vars == <<pvars, svars, avars, cvars, xvars>>

\* op: the callback; snap: the snapshot it received; delay: the delay of the
\* timer it scheduled (0: none)
Op(o, s, d) == [op |-> o, snap |-> s, delay |-> d]

(***************************************************************************)
(* Timer helpers.                                                          *)
(***************************************************************************)
\* clearTimeout(h): removes a pending timer, no effect on other handles
ClearTimeout(ts, h) == IF h \in TimerKinds THEN [ts EXCEPT ![h] = @ - 1] ELSE ts

Pending(ts) == ts["poll"] + ts["complete"]
HasFree(ts) == Pending(ts) < MaxTimers

\* setTimeout(callback, delay): one more pending timer; its handle is k
SetTimeout(ts, k) == [ts EXCEPT ![k] = @ + 1]

\* a timer of kind k fires; held: it is the one pollTimeoutRef names
CanFire(ts, ref, k, held) ==
    /\ ts[k] > 0
    /\ held => ref = k
    /\ ~held => (ref # k \/ ts[k] > 1)
AfterFire(ref, held) == IF held THEN StaleHandle ELSE ref

(***************************************************************************)
(* pollStatus, InsightGenerationModal.tsx l.73-153.                        *)
(***************************************************************************)
\* a slip in the interval: the comparison includes 3
IntervalOffByOne(counter) == IF counter <= 3 THEN 2000 ELSE 10000

\* l.132, l.143, l.150
Interval(counter) == IF counter < 3 THEN 2000 ELSE 10000

\* a slip in the staleness gate: the margin is 10000 ms instead of 5000 ms
IsStaleDataWideMargin(r, trig) == r.updated_at # NullTime /\ r.updated_at < trig - 10000

\* l.83-92: the general staleness gate
IsStaleData(r, trig) == r.updated_at # NullTime /\ r.updated_at < trig - 5000

\* a slip in the completion gate: the margin of 1000 ms is left out
IsFreshCompletionNoMargin(r, trig) ==
    IF r.updated_at # NullTime THEN r.updated_at >= trig ELSE FALSE

\* a slip in the completion gate: a missing updated_at is taken as fresh
IsFreshCompletionTrustsMissing(r, trig) ==
    IF r.updated_at # NullTime THEN r.updated_at >= trig - 1000 ELSE TRUE

\* l.101-111: the completion gate
IsFreshCompletion(r, trig) ==
    IF r.updated_at # NullTime THEN r.updated_at >= trig - 1000 ELSE FALSE

(***************************************************************************)
(* The polling effect, InsightGenerationModal.tsx l.58-165.  It re-runs    *)
(* when isOpen or notifyWhenReady changes: first the cleanup returned by   *)
(* the previous run (l.158-164; only a run with isOpen returned one), then *)
(* the body (l.59-156) under the new isOpen.  ts and ref are the timers    *)
(* and pollTimeoutRef.current left by the callback that caused the re-run. *)
(***************************************************************************)
PollingEffect(prevOpen, nowOpen, ts, ref) ==
    /\ isMountedRef' = TRUE
    /\ timers' = IF prevOpen THEN ClearTimeout(ts, ref) ELSE ts
    /\ pollTimeoutRef' = IF prevOpen THEN NoHandle ELSE ref
    /\ IF nowOpen
       THEN /\ inflight < MaxInflight
            /\ inflight' = inflight + 1
            /\ UNCHANGED <<status, pollCounterRef>>
       ELSE /\ status' = Optimistic
            /\ pollCounterRef' = 0
            /\ UNCHANGED inflight

ModalUnchanged ==
    UNCHANGED <<status, pollTimeoutRef, isMountedRef, pollCounterRef, timers, inflight>>

(***************************************************************************)
(* Page handlers (overview page, part_010).                                *)
(***************************************************************************)
\* handleGenerateInsights l.196-221 (and handleReSync l.239-267) from the
\* point where Xero is connected: timestamp, open the modal, send the POST.
\* The modal's backdrop covers the page, so the button needs a closed modal.
handleGenerateInsights(t) ==
    /\ mounted /\ ~isOpen
    /\ posts < MaxPosts
    /\ t >= triggerTimestampRef
    /\ triggerTimestamp' = t
    /\ triggerTimestampRef' = t          \* effect l.46-50
    /\ isOpen' = TRUE
    /\ posts' = posts + 1
    /\ PollingEffect(FALSE, TRUE, timers, pollTimeoutRef)
    /\ last' = Op("open", NoSnap, 0)
    /\ UNCHANGED <<mounted, notifyWhenReady, notifyAwait>>

\* the POST resolves: nothing follows the await (l.219-221)
TriggerSucceeded ==
    /\ posts > 0
    /\ posts' = posts - 1
    /\ last' = Op("trigger_ok", NoSnap, 0)
    /\ ModalUnchanged
    /\ UNCHANGED <<mounted, isOpen, triggerTimestamp, triggerTimestampRef,
                   notifyWhenReady, notifyAwait>>

\* the POST rejects: catch of l.222-227
TriggerFailed ==
    /\ posts > 0
    /\ posts' = posts - 1
    /\ isOpen' = FALSE
    /\ triggerTimestamp' = NullTime
    /\ IF mounted /\ isOpen
       THEN PollingEffect(TRUE, FALSE, timers, pollTimeoutRef)
       ELSE ModalUnchanged
    /\ last' = Op("trigger_failed", NoSnap, 0)
    /\ UNCHANGED <<mounted, triggerTimestampRef, notifyWhenReady, notifyAwait>>

\* onClose of the page (l.547-550), reached from the backdrop (modal l.239-242)
BackdropClose ==
    /\ mounted /\ isOpen
    /\ status.sync_status \in {"COMPLETED", "FAILED"}
    /\ isOpen' = FALSE
    /\ triggerTimestamp' = NullTime
    /\ PollingEffect(TRUE, FALSE, timers, pollTimeoutRef)
    /\ last' = Op("onClose", NoSnap, 0)
    /\ UNCHANGED <<mounted, triggerTimestampRef, notifyWhenReady, notifyAwait, posts>>

(***************************************************************************)
(* 'Notify me when ready', modal l.227-234 and l.407-413.                  *)
(***************************************************************************)
\* setNotifyWhenReady(true): a state change re-runs the polling effect
SetNotifyWhenReady ==
    IF mounted /\ ~notifyWhenReady
    THEN /\ notifyWhenReady' = TRUE
         /\ PollingEffect(isOpen, isOpen, timers, pollTimeoutRef)
    ELSE /\ UNCHANGED notifyWhenReady
         /\ ModalUnchanged

\* ask: Notification.permission is 'default', the handler awaits the prompt
handleNotifyClick(ask) ==
    /\ mounted /\ isOpen
    /\ ~notifyWhenReady /\ status.sync_status # "COMPLETED"
    /\ IF ask
       THEN /\ notifyAwait' = TRUE
            /\ UNCHANGED notifyWhenReady
            /\ ModalUnchanged
       ELSE /\ UNCHANGED notifyAwait
            /\ SetNotifyWhenReady
    /\ last' = Op("notify_click", NoSnap, 0)
    /\ UNCHANGED <<mounted, isOpen, triggerTimestamp, triggerTimestampRef, posts>>

\* requestPermission() settles, l.230-232
NotifyPermissionAnswered ==
    /\ notifyAwait
    /\ notifyAwait' = FALSE
    /\ SetNotifyWhenReady
    /\ last' = Op("notify_set", NoSnap, 0)
    /\ UNCHANGED <<mounted, isOpen, triggerTimestamp, triggerTimestampRef, posts>>

\* the page stops rendering the modal (skeleton, navigation): the cleanup of
\* the last effect run, if it returned one
Unmount ==
    /\ mounted
    /\ mounted' = FALSE
    /\ IF isOpen
       THEN /\ isMountedRef' = FALSE
            /\ timers' = ClearTimeout(timers, pollTimeoutRef)
            /\ pollTimeoutRef' = NoHandle
       ELSE UNCHANGED <<isMountedRef, timers, pollTimeoutRef>>
    /\ last' = Op("unmount", NoSnap, 0)
    /\ UNCHANGED <<isOpen, triggerTimestamp, triggerTimestampRef, status,
                   notifyWhenReady, notifyAwait, pollCounterRef, inflight, posts>>

(***************************************************************************)
(* pollStatus continuations.                                               *)
(***************************************************************************)
\* setStatus of an unmounted component changes nothing
SetStatus(r) == status' = IF mounted THEN r ELSE status

\* the delay of the timer that pollStatus schedules for snapshot r
\* (l.88, l.129, l.132, l.143; 0: none), counter: pollCounterRef at l.95
ScheduledDelay(r, trig, counter) ==
    IF IsStaleData(r, trig) THEN 1000
    ELSE IF r.sync_status = "COMPLETED"
    THEN IF IsFreshCompletion(r, trig) THEN 1500 ELSE Interval(counter + 1)
    ELSE IF r.sync_status = "FAILED" THEN 0
    ELSE Interval(counter + 1)

\* the request resolves with snapshot r: l.79-145
PollResponse(r) ==
    /\ inflight > 0
    /\ pollCounterRef < MaxPollCounter
    /\ HasFree(timers)
    /\ inflight' = inflight - 1
    /\ last' = Op("response", r,
                  IF isMountedRef
                  THEN ScheduledDelay(r, triggerTimestampRef, pollCounterRef) ELSE 0)
    /\ IF ~isMountedRef
       THEN UNCHANGED <<status, pollCounterRef, timers, pollTimeoutRef>>
       ELSE IF IsStaleData(r, triggerTimestampRef)
       THEN /\ timers' = SetTimeout(timers, "poll")
            /\ pollTimeoutRef' = "poll"
            /\ UNCHANGED <<status, pollCounterRef>>
       ELSE /\ SetStatus(r)
            /\ pollCounterRef' = pollCounterRef + 1
            /\ IF r.sync_status = "COMPLETED"
               THEN IF IsFreshCompletion(r, triggerTimestampRef)
                    THEN /\ timers' = SetTimeout(ClearTimeout(timers, pollTimeoutRef),
                                                 "complete")
                         /\ pollTimeoutRef' = "complete"
                    ELSE /\ timers' = SetTimeout(timers, "poll")
                         /\ pollTimeoutRef' = "poll"
               ELSE IF r.sync_status = "FAILED"
               THEN /\ timers' = ClearTimeout(timers, pollTimeoutRef)
                    /\ pollTimeoutRef' = NoHandle
               ELSE /\ timers' = SetTimeout(timers, "poll")
                    /\ pollTimeoutRef' = "poll"
    /\ UNCHANGED <<mounted, isOpen, triggerTimestamp, triggerTimestampRef,
                   notifyWhenReady, notifyAwait, isMountedRef, posts>>

\* a slip in the catch: the error is logged and counted, no poll is scheduled
PollErrorGivesUp ==
    /\ inflight > 0
    /\ pollCounterRef < MaxPollCounter
    /\ HasFree(timers)
    /\ inflight' = inflight - 1
    /\ last' = Op("poll_error", NoSnap, 0)
    /\ pollCounterRef' = IF isMountedRef THEN pollCounterRef + 1 ELSE pollCounterRef
    /\ UNCHANGED <<mounted, isOpen, triggerTimestamp, triggerTimestampRef, status,
                   notifyWhenReady, notifyAwait, isMountedRef, posts, timers,
                   pollTimeoutRef>>

\* the request throws: catch of l.146-152
PollError ==
    /\ inflight > 0
    /\ pollCounterRef < MaxPollCounter
    /\ HasFree(timers)
    /\ inflight' = inflight - 1
    /\ last' = Op("poll_error", NoSnap,
                  IF isMountedRef THEN Interval(pollCounterRef + 1) ELSE 0)
    /\ IF ~isMountedRef
       THEN UNCHANGED <<pollCounterRef, timers, pollTimeoutRef>>
       ELSE /\ pollCounterRef' = pollCounterRef + 1
            /\ timers' = SetTimeout(timers, "poll")
            /\ pollTimeoutRef' = "poll"
    /\ UNCHANGED <<mounted, isOpen, triggerTimestamp, triggerTimestampRef, status,
                   notifyWhenReady, notifyAwait, isMountedRef, posts>>

\* a poll timer fires: pollStatus l.73-77
PollTimerFire(held) ==
    /\ CanFire(timers, pollTimeoutRef, "poll", held)
    /\ timers' = [timers EXCEPT !["poll"] = @ - 1]
    /\ pollTimeoutRef' = AfterFire(pollTimeoutRef, held)
    /\ IF isMountedRef
       THEN /\ inflight < MaxInflight
            /\ inflight' = inflight + 1
       ELSE UNCHANGED inflight
    /\ last' = Op("poll_timer", NoSnap, 0)
    /\ UNCHANGED <<mounted, isOpen, triggerTimestamp, triggerTimestampRef, status,
                   notifyWhenReady, notifyAwait, isMountedRef, pollCounterRef, posts>>

\* the completion timer fires: l.120-129, then handleInsightGenerationComplete
\* of the page (l.230-232), which closes the modal
CompleteTimerFire(held) ==
    /\ CanFire(timers, pollTimeoutRef, "complete", held)
    /\ LET ts1 == [timers EXCEPT !["complete"] = @ - 1]
           ref1 == AfterFire(pollTimeoutRef, held)
       IN  IF ~isMountedRef
           THEN /\ timers' = ts1
                /\ pollTimeoutRef' = ref1
                /\ last' = Op("complete_dropped", NoSnap, 0)
                /\ UNCHANGED <<isOpen, triggerTimestamp, status, isMountedRef,
                               pollCounterRef, inflight>>
           ELSE /\ isOpen' = FALSE
                /\ triggerTimestamp' = NullTime
                /\ last' = Op("onComplete", NoSnap, 0)
                /\ IF mounted /\ isOpen
                   THEN PollingEffect(TRUE, FALSE, ts1, ref1)
                   ELSE /\ timers' = ts1
                        /\ pollTimeoutRef' = ref1
                        /\ UNCHANGED <<status, isMountedRef, pollCounterRef, inflight>>
    /\ UNCHANGED <<mounted, triggerTimestampRef, notifyWhenReady, notifyAwait, posts>>

(***************************************************************************)
(* The error box of the modal, l.254-262: it is rendered for a FAILED      *)
(* status and its text is fixed.                                           *)
(***************************************************************************)
GenericError == "We encountered an issue generating your insights."
ErrorShown(st) == IF st.sync_status = "FAILED" THEN GenericError ELSE "none"

(***************************************************************************)
(* The state after the component has mounted and its effects have run:     *)
(* mounted closed (triggeredAt undefined, the ref is Date.now(), l.43), or *)
(* mounted with the modal already open (the page re-renders it).           *)
(***************************************************************************)
PollerInit ==
    /\ mounted = TRUE
    /\ isOpen \in BOOLEAN
    /\ triggerTimestampRef = 10000
    /\ triggerTimestamp = IF isOpen THEN triggerTimestampRef ELSE NullTime
    /\ status = Optimistic
    /\ notifyWhenReady = FALSE
    /\ notifyAwait = FALSE
    /\ pollTimeoutRef = NoHandle
    /\ isMountedRef = TRUE
    /\ pollCounterRef = 0
    /\ timers = NoTimers
    /\ inflight = IF isOpen THEN 1 ELSE 0
    /\ posts \in IF isOpen THEN {0, 1} ELSE {0}
    /\ last = Op("mount", NoSnap, 0)


(***************************************************************************)
(* Cache stores (zustand).  One store is modelled at a time, skind says    *)
(* which: the stores share no state.  settings and aiConfig are the two    *)
(* halves of the settings store (part_002), overview is part_003 l.124-284,*)
(* healthScore is part_005, insights is part_004 and admin is one of the   *)
(* three fetchers of stores/adminStore.ts, which have the same shape.      *)
(***************************************************************************)
CacheKinds == {"settings", "aiConfig", "overview", "healthScore"}
PlainKinds == {"insights", "admin"}
StoreKinds == CacheKinds \cup PlainKinds
\* fetchOverview and fetchHealthScore take forceRefresh
ForceKinds == {"overview", "healthScore"}

MaxRequests == 2     \* network requests of one store in flight at once
MaxCallers == 3      \* unsettled fetch promises at once
MaxPayload == 2      \* distinct payloads the backend answers with
MaxTicks == 3        \* clock steps explored

\* part_002 l.52, part_003 l.185, part_005 l.80
CACHE_TTL == 20 * 60 * 1000
\* the clock advances in half-TTL steps from a positive Date.now()
TickMs == CACHE_TTL \div 2
StartNow == TickMs

NoData == 0
Payloads == 1..MaxPayload
\* op: the operation; force: forceRefresh; outcome: the path it took; busy: a
\* network request of the store was in flight when it was called
Call(o, f, out, b) == [op |-> o, force |-> f, outcome |-> out, busy |-> b]

\* a slip in the cache test: forceRefresh is not looked at
CacheValidIgnoringForce(force, d, lf, t) ==
    /\ d # NoData
    /\ lf # NullTime /\ lf # 0
    /\ t - lf < CACHE_TTL

\* a slip in the cache test: the comparison of the age is turned around
CacheValidWhenExpired(force, d, lf, t) ==
    /\ ~force
    /\ d # NoData
    /\ lf # NullTime /\ lf # 0
    /\ t - lf >= CACHE_TTL

\* the cache test, part_002 l.73-78 / l.115-120, part_003 l.213-218,
\* part_005 l.106-111
CacheValid(force, d, lf, t) ==
    /\ ~force
    /\ d # NoData
    /\ lf # NullTime /\ lf # 0
    /\ t - lf < CACHE_TTL

\* a slip in the de-duplication test: the promise reference is not looked at
NeverDeduplicates(pending) == FALSE

\* the de-duplication test, part_002 l.81-83 / l.123-125, part_003 l.221-223
Deduplicates(pending) == pending

\* what a fetch of a cache store does, from the two tests
FetchPath(force, d, lf, t, pending) ==
    IF CacheValid(force, d, lf, t) THEN "cached"
    ELSE IF Deduplicates(pending) THEN "joined"
    ELSE "started"

\* a slip in the catch block: the timestamp is reset with the error
LastFetchedResetOnFailure(lf) == NullTime

\* lastFetched after a failed fetch: the catch sets isLoading and error only
\* (part_002 l.97-101, part_003 l.237-241, part_005 l.130-134)
LastFetchedAfterFailure(lf) == lf

\* fetchSettings / fetchAIConfig / fetchOverview / fetchHealthScore up to the
\* point where the promise is returned
fetchCached(force) ==
    /\ skind \in CacheKinds
    /\ force => skind \in ForceKinds
    /\ LET path == FetchPath(force, data, lastFetched, now, pendingFetchPromise)
       IN  /\ lastCall' = Call("fetch", force, path, requests > 0)
           /\ IF path = "cached"
              THEN UNCHANGED <<data, isLoading, lastFetched, error,
                               pendingFetchPromise, requests, awaiting>>
              ELSE IF path = "joined"
              THEN /\ awaiting < MaxCallers
                   /\ awaiting' = awaiting + 1
                   /\ UNCHANGED <<data, isLoading, lastFetched, error,
                                  pendingFetchPromise, requests>>
              ELSE /\ requests < MaxRequests /\ awaiting < MaxCallers
                   /\ isLoading' = TRUE
                   /\ error' = IF skind = "aiConfig" THEN error ELSE "null"
                   /\ pendingFetchPromise' = TRUE
                   /\ requests' = requests + 1
                   /\ awaiting' = awaiting + 1
                   /\ UNCHANGED <<data, lastFetched>>
    /\ untouchedSinceClear' = FALSE
    /\ UNCHANGED <<skind, now, lastFetchOutcome, lastSettle, storedSinceClear>>

\* fetchInsights (part_004 l.34-41; refetch = FALSE), refetchInsights
\* (l.55-59; refetch = TRUE), fetchDashboard / fetchFeedbackSummary /
\* fetchFeedbackList (adminStore.ts l.112-117, l.131-136, l.150-157)
fetchPlain(refetch) ==
    /\ skind \in PlainKinds
    /\ refetch => skind = "insights"
    /\ IF skind = "insights" /\ ~refetch /\ data # NoData
       THEN /\ lastCall' = Call("fetch", FALSE, "cached", requests > 0)
            /\ UNCHANGED <<isLoading, error, requests, awaiting>>
       ELSE /\ requests < MaxRequests /\ awaiting < MaxCallers
            /\ lastCall' = Call("fetch", refetch, "started", requests > 0)
            /\ isLoading' = TRUE
            /\ error' = "null"
            /\ requests' = requests + 1
            /\ awaiting' = awaiting + 1
    /\ untouchedSinceClear' = FALSE
    /\ UNCHANGED <<skind, data, lastFetched, pendingFetchPromise, now,
                   lastFetchOutcome, lastSettle, storedSinceClear>>

\* the request resolves with payload p: the try block and the finally
\* (part_002 l.91-96, l.103; part_003 l.231-236, l.243; part_004 l.42-46;
\* adminStore.ts l.118-122)
FetchSucceeded(p) ==
    /\ requests > 0
    /\ skind = "insights" \/ p # NoData       \* an insights list may be empty
    /\ requests' = requests - 1
    /\ data' = p
    /\ isLoading' = FALSE
    /\ IF skind \in CacheKinds
       THEN /\ lastFetched' = now
            /\ error' = IF skind = "aiConfig" THEN error ELSE "null"
            /\ pendingFetchPromise' = FALSE
            /\ awaiting' = 0
            /\ storedSinceClear' = TRUE
       ELSE /\ error' = IF skind = "insights" THEN error ELSE "null"
            /\ awaiting' = awaiting - 1
            /\ UNCHANGED <<lastFetched, pendingFetchPromise, storedSinceClear>>
    /\ lastCall' = Call("settled", FALSE, "ok", FALSE)
    /\ lastFetchOutcome' = "ok"
    /\ lastSettle' = "resolved"
    /\ UNCHANGED <<skind, now, untouchedSinceClear>>

\* a slip in the failure path: the promise reference is cleared on success only
FetchFailedKeepsPromise ==
    /\ requests > 0
    /\ requests' = requests - 1
    /\ isLoading' = FALSE
    /\ error' = IF skind = "aiConfig" THEN error ELSE "Failed to load"
    /\ awaiting' = IF skind \in CacheKinds THEN 0 ELSE awaiting - 1
    /\ lastCall' = Call("settled", FALSE, "fail", FALSE)
    /\ lastFetchOutcome' = "fail"
    /\ lastSettle' = "resolved"
    /\ UNCHANGED <<skind, data, lastFetched, pendingFetchPromise, now, storedSinceClear,
                   untouchedSinceClear>>

\* the request rejects: the catch block and the finally
FetchFailed ==
    /\ requests > 0
    /\ requests' = requests - 1
    /\ isLoading' = FALSE
    /\ error' = IF skind = "aiConfig" THEN error ELSE "Failed to load"
    /\ IF skind \in CacheKinds
       THEN /\ lastFetched' = LastFetchedAfterFailure(lastFetched)
            /\ pendingFetchPromise' = FALSE
            /\ awaiting' = 0
       ELSE /\ awaiting' = awaiting - 1
            /\ UNCHANGED <<lastFetched, pendingFetchPromise>>
    /\ lastCall' = Call("settled", FALSE, "fail", FALSE)
    /\ lastFetchOutcome' = "fail"
    /\ lastSettle' = "resolved"          \* the catch does not rethrow
    /\ UNCHANGED <<skind, data, now, storedSinceClear, untouchedSinceClear>>

\* updateSettings (part_002 l.155-161), updateAIConfig (l.163-168),
\* updateOverview (part_003 l.251-257)
updateStore(p) ==
    /\ skind \in {"settings", "aiConfig", "overview"}
    /\ data' = p
    /\ lastFetched' = now
    /\ error' = IF skind = "aiConfig" THEN error ELSE "null"
    /\ storedSinceClear' = TRUE
    /\ untouchedSinceClear' = FALSE
    /\ lastCall' = Call("update", FALSE, "stored", FALSE)
    /\ UNCHANGED <<skind, isLoading, pendingFetchPromise, requests, awaiting,
                   now, lastFetchOutcome, lastSettle>>

\* updateOrgName once its PATCH has succeeded (part_002 l.170-178); a failed
\* PATCH changes nothing (l.179-181)
updateOrgNameSucceeded(p) ==
    /\ skind = "settings"
    /\ data' = p
    /\ lastFetched' = now
    /\ storedSinceClear' = TRUE
    /\ untouchedSinceClear' = FALSE
    /\ lastCall' = Call("updateOrgName", FALSE, "stored", FALSE)
    /\ UNCHANGED <<skind, isLoading, error, pendingFetchPromise, requests,
                   awaiting, now, lastFetchOutcome, lastSettle>>

\* clearSettings (part_002 l.184-192), clearOverview (part_003 l.277-283),
\* clearHealthScore (part_005 l.144-150), clearInsights (part_004 l.73-76),
\* clearAdmin (adminStore.ts l.172-182)
clearStore ==
    /\ data' = NoData
    /\ lastFetched' = NullTime
    /\ error' = IF skind \in {"aiConfig", "insights"} THEN error ELSE "null"
    /\ storedSinceClear' = FALSE
    /\ untouchedSinceClear' = TRUE
    /\ lastCall' = Call("clear", FALSE, "cleared", FALSE)
    /\ UNCHANGED <<skind, isLoading, pendingFetchPromise, requests, awaiting,
                   now, lastFetchOutcome, lastSettle>>

\* time passes
Tick ==
    /\ now < StartNow + MaxTicks * TickMs
    /\ now' = now + TickMs
    /\ lastCall' = Call("tick", FALSE, "none", FALSE)
    /\ UNCHANGED <<skind, data, isLoading, lastFetched, error, pendingFetchPromise,
                   requests, awaiting, lastFetchOutcome, lastSettle, storedSinceClear,
                   untouchedSinceClear>>

(***************************************************************************)
(* handleDisconnect of the settings page (part_010 l.1444-1458), followed  *)
(* through its two awaits.  The page loads the settings when it mounts     *)
(* (l.1415-1419) and shows the button for a connected organisation,        *)
(* disabled while disconnecting (l.1636-1637).  The error text of the page *)
(* (setError) is page state that no store reads; it is left out.           *)
(***************************************************************************)
\* disconnecting (useState): true from l.1446 to the finally of l.1456
disconnecting == disconnectAwait # "none"

\* l.1444-1448: up to the await of POST /integrations/xero/disconnect
handleDisconnect ==
    /\ skind = "settings" /\ data # NoData
    /\ ~disconnecting
    /\ disconnectAwait' = "post"
    /\ lastCall' = Call("disconnect", FALSE, "none", requests > 0)
    /\ UNCHANGED <<skind, data, isLoading, lastFetched, error, pendingFetchPromise,
                   requests, awaiting, now, lastFetchOutcome, storedSinceClear,
                   lastSettle, untouchedSinceClear>>

\* the POST resolves, l.1451-1452: fetchSettings() is called and awaited.  A
\* call that returns the cache has nothing to wait for: the finally of
\* l.1455-1457 follows in the same task
DisconnectSucceeded ==
    /\ disconnectAwait = "post"
    /\ fetchCached(FALSE)
    /\ disconnectAwait' = IF lastCall'.outcome = "cached" THEN "none" ELSE "refresh"

\* the POST rejects: catch and finally, l.1453-1457
DisconnectFailed ==
    /\ disconnectAwait = "post"
    /\ disconnectAwait' = "none"
    /\ lastCall' = Call("disconnect_failed", FALSE, "none", requests > 0)
    /\ UNCHANGED <<skind, data, isLoading, lastFetched, error, pendingFetchPromise,
                   requests, awaiting, now, lastFetchOutcome, storedSinceClear,
                   lastSettle, untouchedSinceClear>>

\* the request of the store settles and with it the promise that
\* handleDisconnect awaits at l.1452 (it never rejects): finally, l.1455-1457
DisconnectResumed ==
    disconnectAwait' = IF disconnectAwait = "refresh" THEN "none" ELSE disconnectAwait

\* a store as created (part_002 l.58-67, part_003 l.203-207, part_004 l.28-32,
\* part_005 l.96-100, adminStore.ts l.98-110)
StoreCreated ==
    /\ data = NoData
    /\ isLoading = FALSE
    /\ lastFetched = NullTime
    /\ error = "null"
    /\ pendingFetchPromise = FALSE
    /\ requests = 0
    /\ awaiting = 0
    /\ now = StartNow
    /\ lastCall = Call("create", FALSE, "none", FALSE)
    /\ lastFetchOutcome = "none"
    /\ storedSinceClear = FALSE
    /\ lastSettle = "none"
    /\ untouchedSinceClear = FALSE
    /\ disconnectAwait = "none"

StoreInit == skind \in StoreKinds /\ StoreCreated

(***************************************************************************)
(* Sessions (AuthProvider, part_014).  The stores are module state of the  *)
(* document: an assignment to window.location.href loads a new document,   *)
(* whose stores are created anew and whose requests are those of nobody;   *)
(* router.push keeps the document and with it the stores.                  *)
(***************************************************************************)
MaxUsers == 2        \* users that sign in
NoSession == 0
Users == 1..MaxUsers

\* window.location.href = ...: the stores of the new document
NewDocument ==
    /\ data' = NoData
    /\ isLoading' = FALSE
    /\ lastFetched' = NullTime
    /\ error' = "null"
    /\ pendingFetchPromise' = FALSE
    /\ requests' = 0
    /\ awaiting' = 0
    /\ lastCall' = Call("create", FALSE, "none", FALSE)
    /\ lastFetchOutcome' = "none"
    /\ storedSinceClear' = FALSE
    /\ lastSettle' = "none"
    /\ untouchedSinceClear' = FALSE
    /\ disconnectAwait' = "none"
    /\ UNCHANGED <<skind, now>>

\* router.push(...): the same document
SameDocument == UNCHANGED svars

\* signOut up to its await, l.154-155
signOut ==
    /\ session # NoSession /\ ~signingOut
    /\ signingOut' = TRUE
    /\ lastAuth' = "signOut_called"
    /\ UNCHANGED session
    /\ SameDocument

\* a slip in signOut: the login page is reached with router.push
SignOutSettledPushesRoute(outcome) ==
    /\ signingOut
    /\ signingOut' = FALSE
    /\ IF outcome = "network_error"
       THEN /\ lastAuth' = "signOut_threw"
            /\ UNCHANGED session
       ELSE /\ lastAuth' = "signOut"
            /\ session' = IF outcome = "ok" THEN NoSession ELSE session
    /\ SameDocument

\* the POST of signOut settles, l.155-156.  fetch() rejects only when no
\* response arrives (signOut throws, nothing follows); with any response,
\* also one that is not ok, the login page is loaded; only an ok response
\* has ended the session
SignOutSettled(outcome) ==
    /\ signingOut
    /\ signingOut' = FALSE
    /\ IF outcome = "network_error"
       THEN /\ lastAuth' = "signOut_threw"
            /\ UNCHANGED session
            /\ SameDocument
       ELSE /\ lastAuth' = "signOut"
            /\ session' = IF outcome = "ok" THEN NoSession ELSE session
            /\ NewDocument

\* onAuthStateChange delivers SIGNED_OUT (the session has expired or was
\* ended elsewhere), l.72-80: router.push('/login')
SignedOutEvent ==
    /\ session # NoSession
    /\ session' = NoSession
    /\ lastAuth' = "SIGNED_OUT"
    /\ UNCHANGED signingOut
    /\ SameDocument

\* signIn after its POST and setSession have succeeded, l.122-141 (signUp
\* with a session, l.109-115, and the return from the OAuth provider,
\* l.143-149, load a new document in the same way)
signInSucceeded(u) ==
    /\ session' = u
    /\ signingOut' = FALSE
    /\ lastAuth' = "signIn"
    /\ NewDocument

SessionInit ==
    /\ session \in {NoSession} \cup Users
    /\ signingOut = FALSE
    /\ lastAuth = "none"

(***************************************************************************)
(* apiRequest (part_001 l.24-70).  One top-level call at a time is         *)
(* followed through its awaits; the recursive call of l.48 continues the   *)
(* same top-level call.                                                    *)
(***************************************************************************)
MaxAttempts == 3     \* HTTP requests of one call that are explored

\* a Response: status, statusText (empty over HTTP/2), whether the body is
\* JSON, and the text of the body
Response(st, stText, json, txt) ==
    [status |-> st, statusText |-> stText, json |-> json, body |-> txt]
NoResponse == Response(0, "", FALSE, "")
Responses ==
    { Response(200, "OK", j, "{}") : j \in BOOLEAN }
    \cup { Response(401, t, TRUE, "{}") : t \in {"Unauthorized", ""} }
    \cup { Response(st, t, FALSE, b) :
              st \in {404, 500}, t \in {"Error", ""}, b \in {"detail", ""} }

\* response.ok
Ok(resp) == resp.status >= 200 /\ resp.status <= 299

\* what the call threw; NoError: nothing
Thrown(name, msg, st, stText) ==
    [name |-> name, message |-> msg, status |-> st, statusText |-> stText]
NoError == Thrown("none", "", 0, "")

\* a slip in the error: the status of the response is not passed on
APIErrorWithoutStatus(resp, errorText) ==
    Thrown("APIError", IF errorText # "" THEN errorText ELSE "API request failed",
           0, resp.statusText)

\* new APIError(errorText || `API request failed`, response.status,
\* response.statusText), l.57-61
APIErrorOf(resp, errorText) ==
    Thrown("APIError", IF errorText # "" THEN errorText ELSE "API request failed",
           resp.status, resp.statusText)

\* new APIError('Unauthorized', 401, 'Unauthorized'), l.53
Unauthorized == Thrown("APIError", "Unauthorized", 401, "Unauthorized")

\* a call begins: l.28-30
apiRequest ==
    /\ apc \in {"idle", "returned", "threw"}
    /\ apc' = "getSession"
    /\ attempts' = 0 /\ refreshes' = 0
    /\ response' = NoResponse /\ thrown' = NoError /\ redirected' = FALSE
    /\ UNCHANGED inBrowser

\* getSession resolves, the request is sent: l.31-42
GetSessionResolved ==
    /\ apc = "getSession"
    /\ attempts < MaxAttempts
    /\ apc' = "fetch"
    /\ attempts' = attempts + 1
    /\ response' = NoResponse
    /\ UNCHANGED <<inBrowser, refreshes, thrown, redirected>>

\* fetch rejects (no response arrives): the TypeError leaves the call
FetchRejected ==
    /\ apc = "fetch"
    /\ apc' = "threw"
    /\ thrown' = Thrown("TypeError", "Failed to fetch", 0, "")
    /\ UNCHANGED <<inBrowser, attempts, refreshes, response, redirected>>

\* fetch resolves with resp: l.44-46, l.56, l.64-69
FetchResolved(resp) ==
    /\ apc = "fetch"
    /\ response' = resp
    /\ IF Ok(resp)
       THEN /\ apc' = IF resp.json THEN "json" ELSE "returned"   \* l.64-69
            /\ UNCHANGED refreshes
       ELSE IF resp.status = 401
       THEN /\ apc' = "refresh"
            /\ refreshes' = refreshes + 1
       ELSE /\ apc' = "text"
            /\ UNCHANGED refreshes
    /\ UNCHANGED <<inBrowser, attempts, thrown, redirected>>

\* response.text() settles: l.56-61; read: it resolved (else statusText is
\* taken in its place)
TextSettled(read) ==
    /\ apc = "text"
    /\ apc' = "threw"
    /\ thrown' = APIErrorOf(response, IF read THEN response.body ELSE response.statusText)
    /\ UNCHANGED <<inBrowser, attempts, refreshes, response, redirected>>

\* response.json() settles: l.69; parsed: the body was JSON
JsonSettled(parsed) ==
    /\ apc = "json"
    /\ IF parsed
       THEN /\ apc' = "returned"
            /\ UNCHANGED thrown
       ELSE /\ apc' = "threw"
            /\ thrown' = Thrown("SyntaxError", "Unexpected token", 0, "")
    /\ UNCHANGED <<inBrowser, attempts, refreshes, response, redirected>>

\* refreshSession resolves: l.46-53; hasSession: data.session is set
RefreshResolved(hasSession) ==
    /\ apc = "refresh"
    /\ IF hasSession
       THEN /\ apc' = "getSession"             \* return apiRequest<T>(endpoint, options)
            /\ UNCHANGED <<thrown, redirected>>
       ELSE /\ apc' = "threw"
            /\ redirected' = inBrowser
            /\ thrown' = Unauthorized
    /\ UNCHANGED <<inBrowser, attempts, refreshes, response>>

ApiInit ==
    /\ apc = "idle"
    /\ inBrowser \in BOOLEAN
    /\ attempts = 0 /\ refreshes = 0
    /\ response = NoResponse /\ thrown = NoError /\ redirected = FALSE

(***************************************************************************)
(* Insight mutations: handleResolve and handleGotIt of the overview page   *)
(* (part_010 l.123-166) and of the insights page (app/(dashboard)/         *)
(* insights/page.tsx l.87-120).  The overview store is module state and    *)
(* outlives the pages; actionLoadingId and expandedCardId are state of the *)
(* page component and start anew with every instance of a page.  A PATCH   *)
(* that is in flight carries the handler that sent it: page and gen say    *)
(* which instance awaits it, pre is the value the field had when the       *)
(* handler started (history).                                              *)
(***************************************************************************)
MaxInsights == 2     \* insights of the organisation
MaxPatches == 2      \* PATCH /api/insights/{id} requests in flight at once
MaxMounts == 3       \* page instances mounted one after the other

NoId == 0
InsightIds == 1..MaxInsights

\* the insights of the store, with the fields of Insight (part_003 l.146-
\* 160) that the pages read
InsightLists ==
    [InsightIds -> [severity : {"high", "medium"}, is_marked_done : BOOLEAN,
                    is_acknowledged : BOOLEAN]]

Patch(i, f, pg, g, v) == [id |-> i, field |-> f, page |-> pg, gen |-> g, pre |-> v]

\* updateInsight of the overview store, part_003 l.259-275
updateInsight(list, insightId, field, value) ==
    [i \in DOMAIN list |->
        IF i = insightId THEN [list[i] EXCEPT ![field] = value] ELSE list[i]]

\* the first n elements of a list of ids (slice(0, n)); ids are in list order
FirstN(S, n) == { i \in S : Cardinality({ j \in S : j < i }) < n }

\* the cards that offer Resolve: the WatchCards of the overview page
\* (watchInsights of l.111-114, shown at l.406-423) and of the insights page
\* (page.tsx l.158, l.214-225; every insight of the organisation under the
\* default filters)
ResolveCards ==
    IF route = "overview"
    THEN FirstN({ i \in DOMAIN insights :
                    insights[i].severity = "high" /\ ~insights[i].is_marked_done }, 3)
    ELSE { i \in DOMAIN insights : insights[i].severity = "high" }

\* the cards that offer Got it: the OKCards of the overview page
\* (okInsights of l.115-117, shown at l.429-442) and of the insights page
\* (page.tsx l.159, l.238-248)
GotItCards ==
    IF route = "overview"
    THEN { i \in DOMAIN insights :
             insights[i].severity = "medium" /\ ~insights[i].is_marked_done }
    ELSE { i \in DOMAIN insights : insights[i].severity = "medium" }

\* the body of both handlers up to the await of the PATCH.  The button of
\* the card being saved is disabled (WatchCard.tsx l.191-192, OKCard.tsx
\* l.63-69); the click on another card runs into the guard of l.124 / l.147
\* (page.tsx l.88 / l.106).  Only the overview page patches the store before
\* the request, and only its handleResolve collapses the card (l.129)
MutationStarted(i, field, collapses) ==
    /\ actionLoadingId # i
    /\ IF actionLoadingId # NoId
       THEN /\ plast' = "ignored"
            /\ UNCHANGED <<insights, actionLoadingId, expandedCardId, patches>>
       ELSE /\ Cardinality(patches) < MaxPatches
            /\ actionLoadingId' = i
            /\ insights' = IF route = "overview"
                           THEN updateInsight(insights, i, field, TRUE)
                           ELSE insights
            /\ expandedCardId' = IF route = "overview" /\ collapses
                                 THEN NoId ELSE expandedCardId
            /\ patches' = patches \cup {Patch(i, field, route, pageGen, insights[i][field])}
            /\ plast' = "patch_sent"
    /\ UNCHANGED <<route, pageGen, toast>>

handleResolve(i) ==
    /\ i \in ResolveCards
    /\ MutationStarted(i, "is_marked_done", TRUE)

handleGotIt(i) ==
    /\ i \in GotItCards
    /\ MutationStarted(i, "is_acknowledged", FALSE)

\* the PATCH resolves: l.136 / l.158 and the finally (page.tsx
\* l.95-97 / l.113-114; its refetchInsights reloads the insights store).
\* The state updates of a page instance that is no longer mounted
\* (p.gen # pageGen) are lost
PatchSucceeded(p) ==
    /\ p \in patches
    /\ patches' = patches \ {p}
    /\ toast' = "success"
    /\ actionLoadingId' = IF p.gen = pageGen THEN NoId ELSE actionLoadingId
    /\ expandedCardId' = IF p.gen = pageGen /\ p.page = "insights" /\ p.field = "is_marked_done"
                         THEN NoId ELSE expandedCardId
    /\ plast' = "patch_ok"
    /\ UNCHANGED <<insights, route, pageGen>>

\* the PATCH rejects: the catch of l.137-140 / l.159-162 and the finally
\* (page.tsx l.98-102 / l.115-119)
PatchFailed(p) ==
    /\ p \in patches
    /\ patches' = patches \ {p}
    /\ insights' = IF p.page = "overview"
                   THEN updateInsight(insights, p.id, p.field, FALSE)
                   ELSE insights
    /\ toast' = "error"
    /\ actionLoadingId' = IF p.gen = pageGen THEN NoId ELSE actionLoadingId
    /\ plast' = "patch_failed"
    /\ UNCHANGED <<expandedCardId, route, pageGen>>

\* onExpand of a card, l.417 / l.440 (page.tsx l.219 / l.243)
onExpand(i) ==
    /\ i \in ResolveCards \cup GotItCards
    /\ expandedCardId' = IF expandedCardId = i THEN NoId ELSE i
    /\ plast' = "expand"
    /\ UNCHANGED <<insights, actionLoadingId, route, pageGen, patches, toast>>

\* the user follows a link of the navigation: the page is unmounted and a
\* new instance of the page r is mounted (l.36-59, page.tsx l.29-35)
Navigate(r) ==
    /\ pageGen < MaxMounts
    /\ pageGen' = pageGen + 1
    /\ route' = r
    /\ actionLoadingId' = NoId
    /\ expandedCardId' = NoId
    /\ plast' = "navigate"
    /\ UNCHANGED <<insights, patches, toast>>

\* the overview page as mounted: no toast has been shown, no handler has run
PageMounted ==
    /\ toast = "none"
    /\ plast = "none"
    /\ actionLoadingId = NoId
    /\ expandedCardId = NoId
    /\ route = "overview"
    /\ pageGen = 1
    /\ patches = {}

\* the organisation has no insights
MutationIdle == PageMounted /\ insights = <<>>

(***************************************************************************)
(* The trigger handlers of the overview page with the clock:               *)
(* handleGenerateInsights (part_010 l.196-228) and handleReSync (l.239-    *)
(* 276) followed through their awaits.  A run is at the await of           *)
(* fetchSettings (stage settings), has called apiRequest, which awaits     *)
(* getSession before it sends (part_001 l.28-31; stage post), or awaits    *)
(* the response of the POST (stage sent).  triggeredAt and sentAt are the  *)
(* values of Date.now() at l.212 / l.258 and when the request left.  Here  *)
(* the poller of the modal is left as it is: Spec follows it.              *)
(***************************************************************************)
MaxRuns == 2         \* runs of the two handlers at an await at once

Run(h, st, t, sent) == [handler |-> h, stage |-> st, triggeredAt |-> t, sentAt |-> sent]

\* syncing after a run of handler h has returned: setSyncing(false) of
\* l.253 and of the finally, l.273-275
SyncingAfter(h) == IF h = "resync" THEN FALSE ELSE syncing

\* l.203-221 / l.248-267: the check of the Xero connection and, for a
\* connected organisation, timestamp, modal and the call of apiRequest.
\* getXeroConnected (part_002 l.150-153) is false without settings.
\* runs: the other runs
AfterSettings(h, runs) ==
    IF settingsXero = "connected"
    THEN /\ triggerTimestamp' = now
         /\ triggerTimestampRef' = now            \* modal effect l.46-50
         /\ isOpen' = TRUE
         /\ truns' = runs (+) SetToBag({Run(h, "post", now, NullTime)})
         /\ syncing' = IF h = "resync" THEN TRUE ELSE syncing
         /\ plast' = "trigger_opened"
         /\ UNCHANGED showXeroModal
    ELSE /\ showXeroModal' = TRUE
         /\ truns' = runs
         /\ syncing' = SyncingAfter(h)
         /\ plast' = "trigger_xero"
         /\ UNCHANGED <<isOpen, triggerTimestamp, triggerTimestampRef>>

\* a click on Generate insights (l.382-384, disabled={showInsightModal}) or
\* on Re-sync (l.324-326, disabled={syncing || showInsightModal}): the
\* handler up to its first await
TriggerClicked(h) ==
    /\ ~isOpen
    /\ h = "resync" => ~syncing
    /\ BagCardinality(truns) < MaxRuns
    /\ IF settingsXero = "null"
       THEN /\ truns' = truns (+) SetToBag({Run(h, "settings", NullTime, NullTime)})
            /\ syncing' = IF h = "resync" THEN TRUE ELSE syncing
            /\ plast' = "trigger_waits"
            /\ UNCHANGED <<isOpen, triggerTimestamp, triggerTimestampRef, showXeroModal>>
       ELSE AfterSettings(h, truns)
    /\ UNCHANGED <<settingsXero, toast>>

\* the promise of fetchSettings settles (it never rejects): the run goes on
SettingsAwaited(r) ==
    /\ BagIn(r, truns) /\ r.stage = "settings"
    /\ AfterSettings(r.handler, truns (-) SetToBag({r}))
    /\ UNCHANGED <<settingsXero, toast>>

\* the settings store receives the settings (part_002 l.91-96)
SettingsLoaded(connected) ==
    /\ settingsXero' = IF connected THEN "connected" ELSE "disconnected"
    /\ plast' = "settings"
    /\ UNCHANGED <<isOpen, triggerTimestamp, triggerTimestampRef, syncing,
                   showXeroModal, truns, toast>>

\* apiRequest sends POST /api/insights/trigger (part_001 l.33-41)
PostSent(r) ==
    /\ BagIn(r, truns) /\ r.stage = "post"
    /\ truns' = (truns (-) SetToBag({r}))
                 (+) SetToBag({Run(r.handler, "sent", r.triggeredAt, now)})
    /\ plast' = "post_sent"
    /\ UNCHANGED <<isOpen, triggerTimestamp, triggerTimestampRef, syncing,
                   showXeroModal, settingsXero, toast>>

\* the POST resolves: nothing follows the await but the finally
PostSucceeded(r) ==
    /\ BagIn(r, truns) /\ r.stage = "sent"
    /\ truns' = truns (-) SetToBag({r})
    /\ syncing' = SyncingAfter(r.handler)
    /\ plast' = "post_ok"
    /\ UNCHANGED <<isOpen, triggerTimestamp, triggerTimestampRef, showXeroModal,
                   settingsXero, toast>>

\* a slip in the catch block: the timestamp is not cleared
PostFailedKeepsTimestamp(r) ==
    /\ BagIn(r, truns) /\ r.stage \in {"post", "sent"}
    /\ truns' = truns (-) SetToBag({r})
    /\ isOpen' = FALSE
    /\ toast' = "error"
    /\ syncing' = SyncingAfter(r.handler)
    /\ plast' = "post_failed"
    /\ UNCHANGED <<triggerTimestamp, triggerTimestampRef, showXeroModal, settingsXero>>

\* apiRequest throws (no session, no response, a response that is not ok):
\* the catch of l.222-227 / l.268-273 and the finally
PostFailed(r) ==
    /\ BagIn(r, truns) /\ r.stage \in {"post", "sent"}
    /\ truns' = truns (-) SetToBag({r})
    /\ isOpen' = FALSE
    /\ triggerTimestamp' = NullTime
    /\ toast' = "error"
    /\ syncing' = SyncingAfter(r.handler)
    /\ plast' = "post_failed"
    /\ UNCHANGED <<triggerTimestampRef, showXeroModal, settingsXero>>

\* the modal is closed: onClose (l.547-550) or onComplete (l.230-232)
ModalClosed ==
    /\ isOpen
    /\ isOpen' = FALSE
    /\ triggerTimestamp' = NullTime
    /\ plast' = "modal_closed"
    /\ UNCHANGED <<triggerTimestampRef, syncing, showXeroModal, settingsXero, truns, toast>>

\* onClose of XeroConnectModal (l.541)
XeroModalClosed ==
    /\ showXeroModal
    /\ showXeroModal' = FALSE
    /\ plast' = "xero_closed"
    /\ UNCHANGED <<isOpen, triggerTimestamp, triggerTimestampRef, syncing,
                   settingsXero, truns, toast>>

\* the overview page as mounted, the settings not yet loaded
TriggerIdle ==
    /\ syncing = FALSE
    /\ showXeroModal = FALSE
    /\ settingsXero = "null"
    /\ truns = EmptyBag

(***************************************************************************)
(* The app user of AuthProvider (part_014 l.32-89).  The init effect runs  *)
(* once (its dependency, router, is stable), so the callbacks of           *)
(* getSession and onAuthStateChange call the fetchAppUser of the first     *)
(* render for the life of the provider; session is the session state.      *)
(***************************************************************************)
MaxMe == 2           \* GET /auth/me requests in flight at once

\* appUser as the fetchAppUser of the first render reads it at l.44: the
\* initial state of l.36
ClosureAppUser == NoSession

\* fetchAppUser up to its await, l.43-48.  ref: fetchingRef.current when it
\* is called.  No line sets fetchingRef back when the request has settled
fetchAppUser(ref) ==
    IF ref \/ ClosureAppUser # NoSession
    THEN /\ fetchingRef' = ref
         /\ UNCHANGED meRequests
    ELSE /\ meRequests < MaxMe
         /\ fetchingRef' = TRUE
         /\ meRequests' = meRequests + 1

\* getSession() of the init effect resolves, l.58-67
InitialSessionResolved(u) ==
    /\ getSessionPending
    /\ getSessionPending' = FALSE
    /\ session' = u
    /\ loading' = FALSE
    /\ lastAuth' = "getSession"
    /\ IF u # NoSession
       THEN fetchAppUser(fetchingRef)
       ELSE UNCHANGED <<fetchingRef, meRequests>>
    /\ UNCHANGED appUser

\* the callback of onAuthStateChange, l.72-86; u is session.user of the
\* event (NoSession: null)
onAuthStateChange(event, u) ==
    /\ event = "SIGNED_OUT" => u = NoSession
    /\ event = "SIGNED_IN" => u # NoSession
    /\ session' = u
    /\ loading' = FALSE
    /\ lastAuth' = event
    /\ IF event = "SIGNED_OUT"
       THEN /\ appUser' = NoSession
            /\ fetchingRef' = FALSE
            /\ UNCHANGED meRequests
       ELSE IF event = "SIGNED_IN"
       THEN /\ fetchAppUser(FALSE)
            /\ UNCHANGED appUser
       ELSE UNCHANGED <<appUser, fetchingRef, meRequests>>
    /\ UNCHANGED getSessionPending

\* GET /auth/me resolves with the app user u, l.49
MeResolved(u) ==
    /\ meRequests > 0
    /\ meRequests' = meRequests - 1
    /\ appUser' = u
    /\ lastAuth' = "me_ok"
    /\ UNCHANGED <<session, fetchingRef, loading, getSessionPending>>

\* GET /auth/me rejects, l.50-52
MeRejected ==
    /\ meRequests > 0
    /\ meRequests' = meRequests - 1
    /\ appUser' = NoSession
    /\ lastAuth' = "me_failed"
    /\ UNCHANGED <<session, fetchingRef, loading, getSessionPending>>

\* the provider as mounted, l.34-41, getSession() called
AuthMounted ==
    /\ appUser = NoSession
    /\ fetchingRef = FALSE
    /\ meRequests = 0
    /\ loading = TRUE
    /\ getSessionPending = TRUE

(***************************************************************************)
(* The step display of the modal, InsightGenerationModal.tsx l.169-201.    *)
(***************************************************************************)
\* stepMap, l.172-178, with the || 0 of l.180
stepMap(step) ==
    CASE step = "CONNECTING" -> 1
      [] step = "IMPORTING" -> 2
      [] step = "CALCULATING" -> 3
      [] step = "GENERATING_INSIGHTS" -> 4
      [] step = "COMPLETED" -> 4
      [] OTHER -> 0

\* a slip in the completion test of the display: every COMPLETED status
\* completes the steps
getStepStatusOfAnyCompletion(stepNumber, st, trig) ==
    LET currentStep == stepMap(st.sync_step)
        isFreshCompletion == st.sync_status = "COMPLETED"
    IN  IF st.sync_status = "IN_PROGRESS" /\ currentStep = 0 /\ stepNumber = 1
        THEN "active"
        ELSE IF stepNumber < currentStep \/ isFreshCompletion THEN "completed"
        ELSE IF stepNumber = currentStep /\ st.sync_status = "IN_PROGRESS" THEN "active"
        ELSE "pending"

\* getStepStatus, l.169-201; st: status, trig: triggerTimestampRef.current
getStepStatus(stepNumber, st, trig) ==
    LET currentStep == stepMap(st.sync_step)
        isFreshCompletion ==
            /\ st.sync_status = "COMPLETED"
            /\ st.updated_at # NullTime
            /\ st.updated_at >= trig - 1000
    IN  IF st.sync_status = "IN_PROGRESS" /\ currentStep = 0 /\ stepNumber = 1
        THEN "active"
        ELSE IF stepNumber < currentStep \/ isFreshCompletion THEN "completed"
        ELSE IF stepNumber = currentStep /\ st.sync_status = "IN_PROGRESS" THEN "active"
        ELSE "pending"

\* the four steps of a render, l.222-225
StepsOf(st, trig) ==
    <<getStepStatus(1, st, trig), getStepStatus(2, st, trig),
      getStepStatus(3, st, trig), getStepStatus(4, st, trig)>>

\* the statuses a response can carry: every sync_status with every
\* sync_step (the named ones, none, one that stepMap does not know)
StepSnapshots ==
    { Snapshot(ss, step, "null", ua) :
        ss \in {"IDLE", "IN_PROGRESS", "COMPLETED", "FAILED"},
        step \in {"null", "CONNECTING", "IMPORTING", "CALCULATING",
                  "GENERATING_INSIGHTS", "COMPLETED", "QUEUED"},
        ua \in UpdatedAts }

\* setStatus(response) of l.94 and the render that follows it
DisplayStatus(r) ==
    /\ mounted /\ isOpen
    /\ status' = r
    /\ stepStatuses' = StepsOf(r, triggerTimestampRef)

(***************************************************************************)
(* The data-quality badge of the overview page, part_010 l.74-108.         *)
(* signals maps each confidence field that is present (truthy) to its      *)
(* value: cash_runway.confidence_level and cash_pressure.confidence of the *)
(* overview data, scorecard.confidence of the health score.                *)
(***************************************************************************)
MaxWarnings == 1     \* data-quality warnings of a health score

SignalNames == {"cash_runway", "cash_pressure", "scorecard"}
Confidences == {"low", "Low", "medium", "high"}

\* String.prototype.toLowerCase on the confidence values
toLowerCase(s) == IF s = "Low" THEN "low" ELSE s

SignalsOver(names) == UNION { [S -> Confidences] : S \in SUBSET names }

\* l.78-91
confidenceSignals(sig) == { toLowerCase(sig[n]) : n \in DOMAIN sig }

\* the effect of l.74-108; prev: dataQuality before it runs
DataQualityEffect(prev, sig, w) ==
    LET hasDataWarnings == w > 0
        hasLowConfidence == "low" \in confidenceSignals(sig) \/ hasDataWarnings
        hasMediumConfidence == "medium" \in confidenceSignals(sig)
    IN  IF hasLowConfidence THEN "Low"
        ELSE IF hasMediumConfidence THEN "Mixed"
        ELSE IF confidenceSignals(sig) # {} THEN "Good"
        ELSE prev

\* the fields of a, and the fields of b that a does not hold
Merge(a, b) == [n \in DOMAIN a \cup DOMAIN b |-> IF n \in DOMAIN a THEN a[n] ELSE b[n]]

\* data of the overview store changes (a fetch, updateOverview,
\* clearOverview) and the effect runs; d: the confidence fields of the new data
OverviewDataChanged(d) ==
    /\ signals' = Merge(d, [n \in DOMAIN signals \cap {"scorecard"} |-> signals[n]])
    /\ dataQuality' = DataQualityEffect(dataQuality, signals', warnings)
    /\ UNCHANGED warnings

\* healthScore of its store changes and the effect runs
HealthScoreChanged(h, w) ==
    /\ signals' = Merge(h, [n \in DOMAIN signals \ {"scorecard"} |-> signals[n]])
    /\ warnings' = w
    /\ dataQuality' = DataQualityEffect(dataQuality, signals', w)

\* the page as mounted with empty stores (no confidence field is held):
\* useState of l.40
QualityIdle ==
    /\ signals = [n \in {} |-> "low"]
    /\ warnings = 0
    /\ dataQuality = "Good"

(***************************************************************************)
(* AdminLayout, app/(admin)/layout.tsx.  user of useAuth() is a new object *)
(* with every update of the auth state (session.user of getSession and of  *)
(* each auth event), so every update with a session re-runs the effects    *)
(* that depend on user.  adminNav: "admin" while the layout is shown,      *)
(* the target of router.push while the navigation is under way, "away"     *)
(* when the layout has been left.                                          *)
(***************************************************************************)
MaxProbes == 3       \* GET /api/admin/dashboard requests in flight at once

LayoutMounted == adminNav # "away"

\* AuthProvider delivers an auth state (part_014 l.58-61, l.72-75) and the
\* effects of l.18-22 and l.26-30 run
AuthStateDelivered(present) ==
    /\ LayoutMounted
    /\ adminUser' = present
    /\ loading' = FALSE
    /\ IF present
       THEN /\ IF isAuthorized = "null"
               THEN probes < MaxProbes /\ probes' = probes + 1
               ELSE UNCHANGED probes
            /\ UNCHANGED adminNav
       ELSE /\ adminNav' = "/login"
            /\ UNCHANGED probes
    /\ UNCHANGED <<isAuthorized, verdicts>>

\* the probe of checkAdminAccess settles, l.32-46; outcome: "ok", "403", or
\* "error" for every other rejection
ProbeSettled(outcome) ==
    /\ probes > 0
    /\ probes' = probes - 1
    /\ IF LayoutMounted
       THEN /\ isAuthorized' = IF outcome = "403" THEN "false" ELSE "true"
            /\ adminNav' = IF outcome = "403" THEN "/overview" ELSE adminNav
            /\ verdicts' = verdicts \cup {outcome}
       ELSE UNCHANGED <<isAuthorized, adminNav, verdicts>>
    /\ UNCHANGED <<adminUser, loading>>

\* the navigation of router.push completes: the layout is unmounted
NavigationCompleted ==
    /\ adminNav \in {"/overview", "/login"}
    /\ adminNav' = "away"
    /\ UNCHANGED <<isAuthorized, adminUser, probes, verdicts, loading>>

\* the render of l.48-64 shows the navigation and the children
ChildrenRendered ==
    /\ LayoutMounted
    /\ ~loading /\ isAuthorized # "null"
    /\ adminUser /\ isAuthorized # "false"

\* the user is on a page outside /admin
AdminIdle ==
    /\ isAuthorized = "null"
    /\ adminUser = FALSE
    /\ probes = 0
    /\ adminNav = "away"
    /\ verdicts = {}

\* the components that a specification is not about
PagesIdle ==
    /\ MutationIdle /\ TriggerIdle /\ AuthMounted
    /\ stepStatuses = <<>>                        \* the modal is not rendered (l.167)
    /\ QualityIdle /\ AdminIdle

(***************************************************************************)
(* Specifications.  Spec: the modal and its page, the store left as        *)
(* created.  StoreSpec: one cache store, the modal left closed.  Each      *)
(* specification leaves the components it is not about as they are.       *)
(***************************************************************************)
Init ==
    /\ PollerInit
    /\ skind = "overview" /\ StoreCreated
    /\ SessionInit /\ session = 1
    /\ ApiInit /\ inBrowser
    /\ PagesIdle

Next ==
    \/ (\E t \in TriggerTimes : handleGenerateInsights(t)) /\ UNCHANGED <<svars, avars, cvars, xvars>>
    \/ TriggerSucceeded /\ UNCHANGED <<svars, avars, cvars, xvars>>
    \/ TriggerFailed /\ UNCHANGED <<svars, avars, cvars, xvars>>
    \/ BackdropClose /\ UNCHANGED <<svars, avars, cvars, xvars>>
    \/ (\E ask \in BOOLEAN : handleNotifyClick(ask)) /\ UNCHANGED <<svars, avars, cvars, xvars>>
    \/ NotifyPermissionAnswered /\ UNCHANGED <<svars, avars, cvars, xvars>>
    \/ Unmount /\ UNCHANGED <<svars, avars, cvars, xvars>>
    \/ (\E r \in Snapshots : PollResponse(r)) /\ UNCHANGED <<svars, avars, cvars, xvars>>
    \/ PollError /\ UNCHANGED <<svars, avars, cvars, xvars>>
    \/ (\E held \in BOOLEAN : PollTimerFire(held)) /\ UNCHANGED <<svars, avars, cvars, xvars>>
    \/ (\E held \in BOOLEAN : CompleteTimerFire(held)) /\ UNCHANGED <<svars, avars, cvars, xvars>>

Spec == Init /\ [][Next]_vars

\* The example of the specification: the modal is open with the trigger at
\* t = 1000 and the first poll in flight; the backend answers with the two
\* snapshots of the example or with a snapshot of a run in progress.
ScenarioSnapshots ==
    { Snapshot("COMPLETED", "COMPLETED", "null", 500),
      Snapshot("COMPLETED", "COMPLETED", "null", 3040),
      Snapshot("IN_PROGRESS", "GENERATING_INSIGHTS", "null", NullTime) }

ScenarioInit ==
    /\ mounted = TRUE
    /\ isOpen = TRUE
    /\ triggerTimestampRef = 1000
    /\ triggerTimestamp = 1000
    /\ status = Optimistic
    /\ notifyWhenReady = FALSE
    /\ notifyAwait = FALSE
    /\ pollTimeoutRef = NoHandle
    /\ isMountedRef = TRUE
    /\ pollCounterRef = 0
    /\ timers = NoTimers
    /\ inflight = 1
    /\ posts \in {0, 1}
    /\ last = Op("open", NoSnap, 0)
    /\ skind = "overview" /\ StoreCreated
    /\ SessionInit /\ session = 1
    /\ ApiInit /\ inBrowser
    /\ PagesIdle

ScenarioNext ==
    \/ (\E t \in TriggerTimes : handleGenerateInsights(t)) /\ UNCHANGED <<svars, avars, cvars, xvars>>
    \/ TriggerSucceeded /\ UNCHANGED <<svars, avars, cvars, xvars>>
    \/ TriggerFailed /\ UNCHANGED <<svars, avars, cvars, xvars>>
    \/ BackdropClose /\ UNCHANGED <<svars, avars, cvars, xvars>>
    \/ (\E ask \in BOOLEAN : handleNotifyClick(ask)) /\ UNCHANGED <<svars, avars, cvars, xvars>>
    \/ NotifyPermissionAnswered /\ UNCHANGED <<svars, avars, cvars, xvars>>
    \/ Unmount /\ UNCHANGED <<svars, avars, cvars, xvars>>
    \/ (\E r \in ScenarioSnapshots : PollResponse(r)) /\ UNCHANGED <<svars, avars, cvars, xvars>>
    \/ PollError /\ UNCHANGED <<svars, avars, cvars, xvars>>
    \/ (\E held \in BOOLEAN : PollTimerFire(held)) /\ UNCHANGED <<svars, avars, cvars, xvars>>
    \/ (\E held \in BOOLEAN : CompleteTimerFire(held)) /\ UNCHANGED <<svars, avars, cvars, xvars>>

ScenarioSpec == ScenarioInit /\ [][ScenarioNext]_vars

StoreSpecInit ==
    /\ StoreInit
    /\ SessionInit
    /\ PollerInit /\ ~isOpen
    /\ ApiInit /\ inBrowser
    /\ PagesIdle

StoreNext ==
    \/ (\E f \in BOOLEAN : fetchCached(f)) /\ UNCHANGED <<disconnectAwait, pvars, avars, cvars, xvars>>
    \/ (\E f \in BOOLEAN : fetchPlain(f)) /\ UNCHANGED <<disconnectAwait, pvars, avars, cvars, xvars>>
    \/ (\E p \in {NoData} \cup Payloads : FetchSucceeded(p)) /\ DisconnectResumed
          /\ UNCHANGED <<pvars, avars, cvars, xvars>>
    \/ FetchFailed /\ DisconnectResumed /\ UNCHANGED <<pvars, avars, cvars, xvars>>
    \/ handleDisconnect /\ UNCHANGED <<pvars, avars, cvars, xvars>>
    \/ DisconnectSucceeded /\ UNCHANGED <<pvars, avars, cvars, xvars>>
    \/ DisconnectFailed /\ UNCHANGED <<pvars, avars, cvars, xvars>>
    \/ (\E p \in Payloads : updateStore(p)) /\ UNCHANGED <<disconnectAwait, pvars, avars, cvars, xvars>>
    \/ (\E p \in Payloads : updateOrgNameSucceeded(p)) /\ UNCHANGED <<disconnectAwait, pvars, avars, cvars, xvars>>
    \/ clearStore /\ UNCHANGED <<disconnectAwait, pvars, avars, cvars, xvars>>
    \/ Tick /\ UNCHANGED <<disconnectAwait, pvars, avars, cvars, xvars>>

    \/ signOut /\ UNCHANGED <<pvars, cvars, xvars>>
    \/ (\E o \in {"ok", "http_error", "network_error"} : SignOutSettled(o)) /\ UNCHANGED <<pvars, cvars, xvars>>
    \/ SignedOutEvent /\ UNCHANGED <<pvars, cvars, xvars>>
    \/ (\E u \in Users : signInSucceeded(u)) /\ UNCHANGED <<pvars, cvars, xvars>>

StoreSpec == StoreSpecInit /\ [][StoreNext]_vars

ApiSpecInit ==
    /\ ApiInit
    /\ PollerInit /\ ~isOpen
    /\ skind = "overview" /\ StoreCreated
    /\ SessionInit /\ session = 1
    /\ PagesIdle

ApiNext ==
    \/ apiRequest /\ UNCHANGED <<pvars, svars, avars, xvars>>
    \/ GetSessionResolved /\ UNCHANGED <<pvars, svars, avars, xvars>>
    \/ FetchRejected /\ UNCHANGED <<pvars, svars, avars, xvars>>
    \/ (\E resp \in Responses : FetchResolved(resp)) /\ UNCHANGED <<pvars, svars, avars, xvars>>
    \/ (\E read \in BOOLEAN : TextSettled(read)) /\ UNCHANGED <<pvars, svars, avars, xvars>>
    \/ (\E parsed \in BOOLEAN : JsonSettled(parsed)) /\ UNCHANGED <<pvars, svars, avars, xvars>>
    \/ (\E hasSession \in BOOLEAN : RefreshResolved(hasSession))
          /\ UNCHANGED <<pvars, svars, avars, xvars>>

ApiSpec == ApiSpecInit /\ [][ApiNext]_vars

(***************************************************************************)
(* Claims about the status poller (specification Spec).                    *)
(***************************************************************************)
Outstanding == inflight + timers["poll"]

\* the snapshot of the last response is a COMPLETED one that fails the
\* completion test (updated_at missing or older than trigger - 1000)
LastWasStaleCompletion ==
    /\ last.op = "response"
    /\ last.snap.sync_status = "COMPLETED"
    /\ \/ last.snap.updated_at = NullTime
       \/ last.snap.updated_at < triggerTimestampRef - 1000

\* C1: while the mounted modal is closed the poller is idle: no timer is
\* pending, no poll timer callback has just run (which would send a GET), and
\* no late response has replaced the status that closing has reset.
C1_ClosedPollerIdle ==
    (mounted /\ ~isOpen) =>
        /\ timers = NoTimers
        /\ status = Optimistic
        /\ last.op # "poll_timer"

\* C2: a COMPLETED response whose updated_at is missing or earlier than
\* trigger_timestamp - 1000, handled by a live poller, schedules no completion
\* callback: the timer it leaves in pollTimeoutRef is a pending poll timer.
C2_StaleCompletionKeepsPolling ==
    (LastWasStaleCompletion /\ isMountedRef) =>
        /\ pollTimeoutRef = "poll"
        /\ last.delay \in {1000, 2000, 10000}

C2_Witness ==
    /\ LastWasStaleCompletion /\ isMountedRef /\ isOpen /\ mounted
    /\ last.snap.updated_at = 8000 /\ triggerTimestampRef = 10000
    /\ pollTimeoutRef = "poll" /\ timers["poll"] = 1
    /\ last.delay = 2000

\* C3: while the open modal displays a fresh completion (a COMPLETED snapshot
\* with updated_at >= trigger_timestamp - 1000), exactly one completion
\* callback is pending (it has been scheduled, once, and not cancelled) and no
\* poll timer is: no status poll was scheduled after the accepted response.
DisplaysFreshCompletion ==
    /\ mounted /\ isOpen
    /\ status.sync_status = "COMPLETED"
    /\ status.updated_at # NullTime
    /\ status.updated_at >= triggerTimestampRef - 1000

C3_FreshCompletionOnce ==
    DisplaysFreshCompletion =>
        /\ timers["complete"] = 1
        /\ timers["poll"] = 0

\* C4: a COMPLETED snapshot that is not accepted as a fresh completion is
\* never stored as the displayed status (where it would enable the backdrop).
C4_StaleNeverDisplayed ==
    (LastWasStaleCompletion /\ isMountedRef /\ mounted) => status # last.snap

\* C5: at most one status poll is outstanding, in-flight requests and pending
\* poll timers counted together.
C5_OneOutstandingPoll == Outstanding <= 1

\* the last callback was a status response that a live poller handled
LastWasHandledResponse == last.op = "response" /\ isMountedRef

\* C16: after a FAILED response no poll is scheduled, and the error text the
\* open modal shows for a FAILED status is the snapshot's last_sync_error when
\* it has one and the generic text otherwise.
C16_FailedStopsAndShowsError ==
    /\ (LastWasHandledResponse /\ last.snap.sync_status = "FAILED") => last.delay = 0
    /\ (mounted /\ isOpen /\ status.sync_status = "FAILED") =>
          ErrorShown(status) = IF status.last_sync_error # "null"
                               THEN status.last_sync_error ELSE GenericError

\* the last callback has scheduled a poll (not the completion callback)
PollScheduled ==
    last.op \in {"response", "poll_error"} /\ last.delay \notin {0, 1500}

\* the snapshot of the last response is older than trigger - 5000
LastWasOlderThanGate ==
    /\ last.op = "response"
    /\ last.snap.updated_at # NullTime
    /\ last.snap.updated_at < triggerTimestampRef - 5000

\* C17 as stated: a poll is scheduled 2000 ms after each of the first 3 polls
\* counted since opening and 10000 ms after every later one.
C17_ThreeFastPolls ==
    PollScheduled => last.delay = IF pollCounterRef <= 3 THEN 2000 ELSE 10000

\* C17 as amended: a poll is scheduled 2000 ms after the first and the second
\* counted poll and 10000 ms after the third and every later one, whatever
\* the cause; a snapshot older than trigger - 5000 is not counted and the
\* poll after it is scheduled 1000 ms later.
C17_TwoFastPolls ==
    PollScheduled =>
        last.delay = IF LastWasOlderThanGate THEN 1000
                     ELSE IF pollCounterRef < 3 THEN 2000 ELSE 10000

C17_Witness ==
    /\ mounted /\ isOpen /\ PollScheduled
    /\ last.op = "response" /\ last.snap.sync_status = "IN_PROGRESS"
    /\ pollCounterRef = 3 /\ last.delay = 10000

\* C18: a status request that throws while the modal is open leaves the
\* displayed status as it is and schedules the next poll, however many
\* errors came before.
ErrorReschedules ==
    (last.op = "poll_error" /\ mounted /\ isOpen) =>
        /\ pollTimeoutRef = "poll" /\ timers["poll"] >= 1
        /\ last.delay \in {2000, 10000}

C18_PollErrorsAreTransient ==
    [][ last'.op = "poll_error" => (status' = status /\ ErrorReschedules') ]_vars

C18_Witness ==
    /\ last.op = "poll_error" /\ mounted /\ isOpen
    /\ pollCounterRef = 3 /\ status = Optimistic
    /\ pollTimeoutRef = "poll" /\ last.delay = 10000

\* C19: when the modal has just been opened it displays the optimistic
\* status IN_PROGRESS / CONNECTING.
C19_OpensOptimistic == last.op = "open" => status = Optimistic

\* the last callback was a live poller's response with this COMPLETED
\* snapshot, for the trigger at t = 1000
ScenarioResponse(ua) ==
    /\ LastWasHandledResponse /\ triggerTimestampRef = 1000
    /\ last.snap = Snapshot("COMPLETED", "COMPLETED", "null", ua)

\* C20 as stated: with the trigger at 1000, {COMPLETED, updated_at = 500} is
\* stale: it is not displayed, no completion is scheduled and the next poll
\* is scheduled 2000 ms later; {COMPLETED, updated_at = 3040} is fresh and
\* the completion is scheduled 1500 ms after it.
C20_ScenarioAsStated ==
    /\ ScenarioResponse(500) =>
          /\ last.delay = 2000 /\ pollTimeoutRef = "poll"
          /\ status # last.snap
    /\ ScenarioResponse(3040) =>
          /\ last.delay = 1500 /\ pollTimeoutRef = "complete"

\* C20 as amended: with the trigger at 1000, {COMPLETED, updated_at = 500}
\* is within the margin of 1000 ms and is fresh, like {COMPLETED,
\* updated_at = 3040}: each is displayed and schedules the completion 1500 ms
\* after it, and no poll.
C20_ScenarioInMargin ==
    \A ua \in {500, 3040} :
        ScenarioResponse(ua) =>
            /\ last.delay = 1500 /\ pollTimeoutRef = "complete"
            /\ timers["complete"] >= 1
            /\ mounted => status = last.snap

C20_Witness ==
    /\ ScenarioResponse(500) /\ mounted /\ isOpen
    /\ pollCounterRef = 1 /\ status = last.snap
    /\ timers = [poll |-> 0, complete |-> 1] /\ inflight = 0

(***************************************************************************)
(* Claims about the cache stores (specification StoreSpec).                *)
(***************************************************************************)
\* the cache is fresh in the words of the spec: data is held and it was
\* fetched less than 20 minutes ago
HoldsFreshData ==
    data # NoData /\ lastFetched # NullTime /\ now - lastFetched < 20 * 60 * 1000

\* C6 as stated: in a de-duplicating store at most one network request is in
\* flight, and every fetch call made while one is in flight issues none and
\* shares its promise, so that all callers settle when that request settles.
C6_EveryCallerJoins ==
    skind \in CacheKinds =>
        /\ requests <= 1
        /\ (requests = 1) = (awaiting >= 1)
        /\ (lastCall.op = "fetch" /\ lastCall.busy) => lastCall.outcome = "joined"

\* C6 as amended: the same, except that a non-forced call that finds fresh
\* data returns at once, without awaiting the request in flight.
C6_CallersJoinOrHitCache ==
    skind \in CacheKinds =>
        /\ requests <= 1
        /\ (requests = 1) = (awaiting >= 1)
        /\ (lastCall.op = "fetch" /\ lastCall.busy) =>
              \/ lastCall.outcome = "joined"
              \/ lastCall.outcome = "cached" /\ ~lastCall.force /\ HoldsFreshData

C6_Witness ==
    /\ skind = "settings"
    /\ lastCall.op = "fetch" /\ lastCall.busy /\ lastCall.outcome = "joined"
    /\ requests = 1 /\ awaiting = 3

\* C7: the insights store and the admin store never have two network
\* requests of a fetch in flight.
C7_PlainStoresDeduplicate == skind \in PlainKinds => requests <= 1

\* C8 as stated: every forced fetch issues a new network request.
C8_ForcedAlwaysRequests ==
    (lastCall.op = "fetch" /\ lastCall.force) => lastCall.outcome = "started"

\* C8 as amended: a forced fetch never returns the cache; it issues a new
\* network request when none of the store is in flight, and shares the one in
\* flight otherwise.
C8_ForcedRequestsUnlessBusy ==
    (lastCall.op = "fetch" /\ lastCall.force /\ skind \in ForceKinds) =>
        /\ requests = 1
        /\ lastCall.outcome = IF lastCall.busy THEN "joined" ELSE "started"

C8_Witness ==
    /\ lastCall.op = "fetch" /\ lastCall.force /\ lastCall.outcome = "started"
    /\ HoldsFreshData /\ requests = 1

\* C9: a non-forced fetch of a store that holds data fetched less than 20
\* minutes ago issues no request and changes neither the store state nor the
\* promise reference.
C9_TTLHitChangesNothing ==
    [][ (lastCall'.op = "fetch" /\ ~lastCall'.force /\ skind \in CacheKinds
           /\ HoldsFreshData)
        => UNCHANGED <<data, isLoading, lastFetched, error, pendingFetchPromise,
                       requests, awaiting>> ]_vars

C9_Witness ==
    /\ skind \in CacheKinds
    /\ lastCall = Call("fetch", FALSE, "cached", FALSE)
    /\ HoldsFreshData /\ now = lastFetched + TickMs

\* C10 as stated: lastFetched is set exactly when the most recent fetch
\* succeeded.
C10_SetIffLastFetchSucceeded ==
    skind \in CacheKinds => ((lastFetched # NullTime) = (lastFetchOutcome = "ok"))

\* C10 as amended: lastFetched is set exactly when data has been stored (by a
\* successful fetch or by updateX) since the store was created or last
\* cleared; a fetch that fails afterwards leaves it set.
C10_SetIffStoredSinceClear ==
    skind \in CacheKinds => ((lastFetched # NullTime) = storedSinceClear)

C10_Witness ==
    /\ skind = "healthScore"
    /\ lastCall.op = "settled" /\ lastFetchOutcome = "fail"
    /\ lastFetched # NullTime /\ storedSinceClear

\* C11: the step in which the network request of a store fetch fails resolves
\* the returned promise, sets error to a message, sets isLoading to false and
\* leaves data and lastFetched as they were.
C11_FailedFetchStoresError ==
    [][ (lastCall'.op = "settled" /\ lastCall'.outcome = "fail")
        => /\ lastSettle' = "resolved"
           /\ error' # "null"
           /\ isLoading' = FALSE
           /\ data' = data /\ lastFetched' = lastFetched ]_vars

\* C12: in a cache store the promise reference is set exactly while a
\* network request of the store is outstanding, so a fetch call made when none
\* is outstanding and the cache is not used (as after a failed fetch) issues a
\* new request; and only a fetch call raises the number of requests.
PromiseSetIffRequesting ==
    skind \in CacheKinds =>
        /\ pendingFetchPromise = (requests > 0)
        /\ (lastCall.op = "fetch" /\ ~lastCall.busy /\ lastCall.outcome # "cached")
              => (lastCall.outcome = "started" /\ requests = 1)

C12_PromiseClearedWhenIdle ==
    /\ PromiseSetIffRequesting
    /\ [][ /\ PromiseSetIffRequesting'
           /\ requests' > requests => lastCall'.op = "fetch" ]_vars

C12_Witness ==
    /\ skind = "healthScore"
    /\ lastFetchOutcome = "fail" /\ data = NoData
    /\ lastCall = Call("fetch", FALSE, "started", FALSE)
    /\ pendingFetchPromise /\ requests = 1

\* C13: the step in which signOut reaches the login page leaves the store
\* without data (data null / empty, lastFetched null, nothing in flight), and
\* so does every step in which a user's session begins: no session reads what
\* an earlier one has stored.
StoreEmpty ==
    data = NoData /\ lastFetched = NullTime /\ requests = 0 /\ ~pendingFetchPromise

C14_AtMostOneRetry == refreshes <= 1 /\ attempts <= 2

\* C15 as stated: a call whose last response is not 2xx returns nothing, and
\* when it has thrown, it has thrown an APIError with the status and the
\* statusText of that response.
C15_ThrowsStatusOfResponse ==
    /\ apc = "returned" => Ok(response)
    /\ (apc = "threw" /\ response # NoResponse /\ ~Ok(response)) =>
          /\ thrown.name = "APIError"
          /\ thrown.status = response.status
          /\ thrown.statusText = response.statusText

\* C15 as amended: the same, except that the APIError thrown for a 401 whose
\* refresh yields no session has the fixed statusText 'Unauthorized'.
C15_ThrowsStatusOfResponseOr401 ==
    /\ apc = "returned" => Ok(response)
    /\ (apc = "threw" /\ response # NoResponse /\ ~Ok(response)) =>
          /\ thrown.name = "APIError"
          /\ thrown.status = response.status
          /\ thrown.statusText =
                IF response.status = 401 THEN "Unauthorized" ELSE response.statusText

C15_Witness ==
    /\ apc = "threw" /\ attempts = 2
    /\ response = Response(500, "Error", FALSE, "detail")
    /\ thrown = Thrown("APIError", "detail", 500, "Error")

(***************************************************************************)
(* Specifications of the pages and of the providers.                       *)
(***************************************************************************)
MutationSpecInit ==
    /\ PageMounted /\ insights \in InsightLists
    /\ TriggerIdle /\ AuthMounted /\ stepStatuses = <<>> /\ QualityIdle /\ AdminIdle
    /\ PollerInit /\ ~isOpen
    /\ skind = "overview" /\ StoreCreated
    /\ SessionInit /\ session = 1
    /\ ApiInit /\ inBrowser

MutationRest ==
    <<pvars, svars, avars, cvars, syncing, showXeroModal, settingsXero, truns,
      appUser, fetchingRef, meRequests, loading, getSessionPending, stepStatuses,
      signals, warnings, dataQuality, isAuthorized, adminUser, probes, adminNav,
      verdicts>>

MutationNext ==
    \/ (\E i \in InsightIds : handleResolve(i)) /\ UNCHANGED MutationRest
    \/ (\E i \in InsightIds : handleGotIt(i)) /\ UNCHANGED MutationRest
    \/ (\E p \in patches : PatchSucceeded(p)) /\ UNCHANGED MutationRest
    \/ (\E p \in patches : PatchFailed(p)) /\ UNCHANGED MutationRest
    \/ (\E i \in InsightIds : onExpand(i)) /\ UNCHANGED MutationRest
    \/ (\E r \in {"overview", "insights"} : Navigate(r)) /\ UNCHANGED MutationRest

MutationSpec == MutationSpecInit /\ [][MutationNext]_vars

TriggerSpecInit ==
    /\ TriggerIdle
    /\ MutationIdle /\ AuthMounted /\ stepStatuses = <<>> /\ QualityIdle /\ AdminIdle
    /\ PollerInit /\ ~isOpen
    /\ skind = "overview" /\ StoreCreated
    /\ SessionInit /\ session = 1
    /\ ApiInit /\ inBrowser

\* what the poller of the modal keeps to itself
modalInner == <<mounted, status, notifyWhenReady, notifyAwait, pollTimeoutRef,
                isMountedRef, pollCounterRef, timers, inflight, posts, last>>

TriggerRest ==
    <<modalInner, avars, cvars, insights, actionLoadingId, expandedCardId, route,
      pageGen, patches, appUser, fetchingRef, meRequests, loading,
      getSessionPending, stepStatuses, signals, warnings, dataQuality,
      isAuthorized, adminUser, probes, adminNav, verdicts>>

TriggerNext ==
    \/ (\E h \in {"generate", "resync"} : TriggerClicked(h))
          /\ UNCHANGED <<svars, TriggerRest>>
    \/ (\E r \in BagToSet(truns) : SettingsAwaited(r)) /\ UNCHANGED <<svars, TriggerRest>>
    \/ (\E c \in BOOLEAN : SettingsLoaded(c)) /\ UNCHANGED <<svars, TriggerRest>>
    \/ (\E r \in BagToSet(truns) : PostSent(r)) /\ UNCHANGED <<svars, TriggerRest>>
    \/ (\E r \in BagToSet(truns) : PostSucceeded(r)) /\ UNCHANGED <<svars, TriggerRest>>
    \/ (\E r \in BagToSet(truns) : PostFailed(r)) /\ UNCHANGED <<svars, TriggerRest>>
    \/ ModalClosed /\ UNCHANGED <<svars, TriggerRest>>
    \/ XeroModalClosed /\ UNCHANGED <<svars, TriggerRest>>
    \/ Tick /\ UNCHANGED <<disconnectAwait, isOpen, triggerTimestamp, triggerTimestampRef,
                           toast, plast, syncing, showXeroModal, settingsXero, truns,
                           TriggerRest>>

TriggerSpec == TriggerSpecInit /\ [][TriggerNext]_vars

AuthSpecInit ==
    /\ AuthMounted
    /\ session = NoSession /\ signingOut = FALSE /\ lastAuth = "none"
    /\ MutationIdle /\ TriggerIdle /\ stepStatuses = <<>> /\ QualityIdle /\ AdminIdle
    /\ PollerInit /\ ~isOpen
    /\ skind = "overview" /\ StoreCreated
    /\ ApiInit /\ inBrowser

AuthRest ==
    <<signingOut, pvars, svars, cvars, insights, actionLoadingId, expandedCardId,
      route, pageGen, patches, toast, plast, syncing, showXeroModal, settingsXero,
      truns, stepStatuses, signals, warnings, dataQuality, isAuthorized,
      adminUser, probes, adminNav, verdicts>>

AuthNext ==
    \/ (\E u \in {NoSession} \cup Users : InitialSessionResolved(u)) /\ UNCHANGED AuthRest
    \/ (\E e \in {"SIGNED_IN", "SIGNED_OUT", "TOKEN_REFRESHED"},
           u \in {NoSession} \cup Users : onAuthStateChange(e, u))
          /\ UNCHANGED AuthRest
    \/ (\E u \in Users : MeResolved(u)) /\ UNCHANGED AuthRest
    \/ MeRejected /\ UNCHANGED AuthRest

AuthSpec == AuthSpecInit /\ [][AuthNext]_vars

\* the modal open, the first render done
StepSpecInit ==
    /\ mounted = TRUE
    /\ isOpen = TRUE
    /\ triggerTimestampRef \in TriggerTimes
    /\ triggerTimestamp = triggerTimestampRef
    /\ status = Optimistic
    /\ stepStatuses = StepsOf(Optimistic, triggerTimestampRef)
    /\ notifyWhenReady = FALSE
    /\ notifyAwait = FALSE
    /\ pollTimeoutRef = NoHandle
    /\ isMountedRef = TRUE
    /\ pollCounterRef = 0
    /\ timers = NoTimers
    /\ inflight = 1
    /\ posts = 0
    /\ last = Op("open", NoSnap, 0)
    /\ MutationIdle /\ TriggerIdle /\ AuthMounted /\ QualityIdle /\ AdminIdle
    /\ skind = "overview" /\ StoreCreated
    /\ SessionInit /\ session = 1
    /\ ApiInit /\ inBrowser

StepNext ==
    (\E r \in StepSnapshots : DisplayStatus(r))
        /\ UNCHANGED <<mounted, isOpen, triggerTimestamp, triggerTimestampRef,
                       notifyWhenReady, notifyAwait, pollTimeoutRef, isMountedRef,
                       pollCounterRef, timers, inflight, posts, last,
                       svars, avars, cvars, insights, actionLoadingId, expandedCardId,
                       route, pageGen, patches, toast, plast, syncing, showXeroModal,
                       settingsXero, truns, appUser, fetchingRef, meRequests, loading,
                       getSessionPending, signals, warnings, dataQuality,
                       isAuthorized, adminUser, probes, adminNav, verdicts>>

StepSpec == StepSpecInit /\ [][StepNext]_vars

QualitySpecInit ==
    /\ QualityIdle
    /\ MutationIdle /\ TriggerIdle /\ AuthMounted /\ stepStatuses = <<>> /\ AdminIdle
    /\ PollerInit /\ ~isOpen
    /\ skind = "overview" /\ StoreCreated
    /\ SessionInit /\ session = 1
    /\ ApiInit /\ inBrowser

QualityRest ==
    <<pvars, svars, avars, cvars, insights, actionLoadingId, expandedCardId, route,
      pageGen, patches, toast, plast, syncing, showXeroModal, settingsXero, truns,
      appUser, fetchingRef, meRequests, loading, getSessionPending, stepStatuses,
      isAuthorized, adminUser, probes, adminNav, verdicts>>

QualityNext ==
    \/ (\E d \in SignalsOver({"cash_runway", "cash_pressure"}) : OverviewDataChanged(d))
          /\ UNCHANGED QualityRest
    \/ (\E h \in SignalsOver({"scorecard"}), w \in 0..MaxWarnings : HealthScoreChanged(h, w))
          /\ UNCHANGED QualityRest

QualitySpec == QualitySpecInit /\ [][QualityNext]_vars

\* the layout as mounted, l.13-15, the auth state still loading
AdminSpecInit ==
    /\ isAuthorized = "null"
    /\ adminUser = FALSE
    /\ probes = 0
    /\ adminNav = "admin"
    /\ verdicts = {}
    /\ AuthMounted
    /\ MutationIdle /\ TriggerIdle /\ stepStatuses = <<>> /\ QualityIdle
    /\ PollerInit /\ ~isOpen
    /\ skind = "overview" /\ StoreCreated
    /\ SessionInit /\ session = 1
    /\ ApiInit /\ inBrowser

AdminRest ==
    <<appUser, fetchingRef, meRequests, getSessionPending, pvars, svars, avars,
      cvars, insights, actionLoadingId, expandedCardId, route, pageGen, patches,
      toast, plast, syncing, showXeroModal, settingsXero, truns, stepStatuses,
      signals, warnings, dataQuality>>

AdminNext ==
    \/ (\E present \in BOOLEAN : AuthStateDelivered(present)) /\ UNCHANGED AdminRest
    \/ (\E o \in {"ok", "403", "error"} : ProbeSettled(o)) /\ UNCHANGED AdminRest
    \/ NavigationCompleted /\ UNCHANGED AdminRest

AdminSpec == AdminSpecInit /\ [][AdminNext]_vars

(***************************************************************************)
(* Claims about the insight mutations (specification MutationSpec).        *)
(***************************************************************************)
\* C21: the step in which the PATCH of a resolve or acknowledge action of the
\* overview page fails leaves the flag of the insight at the value it had
\* immediately before the handler started, leaves every other insight
\* unchanged and shows an error toast.
C21_FailedPatchRestores ==
    [][ \A p \in patches :
          (plast' = "patch_failed" /\ p \notin patches' /\ p.page = "overview") =>
              /\ insights'[p.id][p.field] = p.pre
              /\ \A j \in InsightIds \ {p.id} : insights'[j] = insights[j]
              /\ toast' = "error" ]_vars

\* C22: for no insight are two PATCH requests in flight at a time (each was
\* sent by a resolve or acknowledge action, on the overview page together
\* with its optimistic patch).
C22_OnePatchPerInsight ==
    \A i \in InsightIds : Cardinality({ p \in patches : p.id = i }) <= 1

(***************************************************************************)
(* Claims about the trigger handlers (specification TriggerSpec).          *)
(***************************************************************************)
\* C23: a run of handleGenerateInsights or handleReSync has recorded its
\* timestamp before its POST is sent (the timestamp is not later than the
\* send time); while the modal is open the timestamp of the freshness gate is
\* the one recorded by the run that opened it, so it is not later than the
\* send time of that run's POST; and after a failed POST the modal is closed,
\* the timestamp is cleared and an error toast is shown.
C23_TimestampBeforePost ==
    /\ \A r \in BagToSet(truns) :
          /\ r.stage \in {"post", "sent"} =>
                (r.triggeredAt # NullTime /\ r.triggeredAt <= now)
          /\ r.stage = "sent" => r.triggeredAt <= r.sentAt
          /\ (r.stage = "sent" /\ isOpen /\ r.triggeredAt = triggerTimestamp) =>
                triggerTimestampRef <= r.sentAt
    /\ isOpen => (triggerTimestamp # NullTime /\ triggerTimestampRef = triggerTimestamp)
    /\ plast = "trigger_opened" =>
          (isOpen /\ \E r \in BagToSet(truns) :
                        r.stage = "post" /\ r.triggeredAt = triggerTimestamp)
    /\ plast = "post_failed" =>
          (~isOpen /\ triggerTimestamp = NullTime /\ toast = "error")

C23_Witness ==
    /\ isOpen /\ syncing
    /\ \E r \in BagToSet(truns) :
          /\ r.handler = "resync" /\ r.stage = "sent"
          /\ r.triggeredAt = triggerTimestampRef
          /\ r.sentAt = r.triggeredAt + TickMs

\* after a failed POST of a run the page is as C23 says
C23_FailureWitness ==
    /\ plast = "post_failed" /\ ~isOpen /\ triggerTimestamp = NullTime
    /\ toast = "error" /\ truns = EmptyBag /\ now > StartNow

(***************************************************************************)
(* Claims about the settings page and the clearing of stores (StoreSpec).  *)
(***************************************************************************)
\* C24: the step in which handleDisconnect goes on after its POST has
\* succeeded starts a GET /settings/ network request.
C24_DisconnectRefetchesSettings ==
    [][ (disconnectAwait = "post" /\ disconnectAwait' # "post" /\ lastCall'.op = "fetch")
        => lastCall'.outcome = "started" ]_vars

\* C30: from a clearSettings, clearOverview or clearHealthScore until the next
\* call of a fetch (or update) of the store, data and lastFetched are null: a
\* request that was started before the clear stores nothing.
C30_ClearNotUndone ==
    (skind \in {"settings", "overview", "healthScore"} /\ untouchedSinceClear) =>
        (data = NoData /\ lastFetched = NullTime)

(***************************************************************************)
(* Claims about AuthProvider and AdminLayout.                              *)
(***************************************************************************)
\* C25: AuthProvider never has two GET /auth/me requests in flight, and it
\* issues none while it holds app user data.
C25_OneAppUserFetch ==
    [][ /\ meRequests' <= 1
        /\ meRequests' > meRequests => appUser = NoSession ]_vars

\* C28: AdminLayout shows its children only when a probe has settled and no
\* probe was rejected with status 403.
C28_AdminGate ==
    ChildrenRendered => (verdicts # {} /\ "403" \notin verdicts)

(***************************************************************************)
(* Claims about the displays of the overview page and of the modal.        *)
(***************************************************************************)
\* the steps read in order are completed*, at most one active, pending*
WellFormedSteps(s) ==
    /\ \A n \in 1..4 :
          s[n] \in {"completed", "active"} => \A m \in 1..(n - 1) : s[m] = "completed"
    /\ Cardinality({ n \in 1..4 : s[n] = "active" }) <= 1

\* C26: the step statuses of every displayed status are well-formed, and
\* all four steps are completed exactly when the displayed status is
\* COMPLETED with updated_at >= trigger_timestamp - 1000.
C26_StepsWellFormed ==
    stepStatuses # <<>> =>
        /\ WellFormedSteps(stepStatuses)
        /\ (\A n \in 1..4 : stepStatuses[n] = "completed")
              = ( /\ status.sync_status = "COMPLETED"
                  /\ status.updated_at # NullTime
                  /\ status.updated_at >= triggerTimestampRef - 1000 )

C26_Witness ==
    /\ stepStatuses = <<"completed", "completed", "completed", "completed">>
    /\ status.sync_status = "COMPLETED" /\ status.sync_step = "null"
    /\ status.updated_at = 9000 /\ triggerTimestampRef = 10000

\* a COMPLETED status that is not fresh: the fourth step stays pending
C26_StaleWitness ==
    /\ stepStatuses = <<"completed", "completed", "completed", "pending">>
    /\ status.sync_status = "COMPLETED" /\ status.sync_step = "COMPLETED"
    /\ status.updated_at = 8000 /\ triggerTimestampRef = 10000

\* C27: dataQuality is Low if a confidence signal is low or the health score
\* has data-quality warnings, else Mixed if a signal is medium, else Good.
C27_WorstSignalWins ==
    dataQuality =
        IF (\E n \in DOMAIN signals : toLowerCase(signals[n]) = "low") \/ warnings > 0
        THEN "Low"
        ELSE IF \E n \in DOMAIN signals : toLowerCase(signals[n]) = "medium"
        THEN "Mixed"
        ELSE "Good"

(***************************************************************************)
(* A further claim about the status poller (specification Spec).           *)
(***************************************************************************)
\* the last response carried a terminal snapshot and a live poller handled it
LastWasTerminal ==
    /\ LastWasHandledResponse
    /\ last.snap.sync_status \in {"COMPLETED", "FAILED"}

\* the last callback has left a pending poll timer in pollTimeoutRef
PollGoesOn == PollScheduled /\ pollTimeoutRef = "poll" /\ timers["poll"] >= 1

\* C29 as stated: a terminal snapshot whose updated_at is missing or earlier
\* than trigger_timestamp - 5000 never ends the polling: after it another
\* poll is scheduled.
C29_UngatedTerminalKeepsPolling ==
    ( /\ LastWasTerminal
      /\ \/ last.snap.updated_at = NullTime
         \/ last.snap.updated_at < triggerTimestampRef - 5000 ) => PollGoesOn

\* C29 as amended: a terminal snapshot whose updated_at is earlier than
\* trigger_timestamp - 5000, and a COMPLETED snapshot without updated_at, never
\* end the polling; a FAILED snapshot without updated_at passes the gate and
\* ends it.
C29_StaleTerminalKeepsPolling ==
    /\ ( /\ LastWasTerminal
         /\ \/ LastWasOlderThanGate
            \/ last.snap.sync_status = "COMPLETED" /\ last.snap.updated_at = NullTime )
       => PollGoesOn
    /\ ( /\ LastWasTerminal
         /\ last.snap.sync_status = "FAILED" /\ last.snap.updated_at = NullTime )
       => (last.delay = 0 /\ pollTimeoutRef = NoHandle)

C29_Witness ==
    /\ LastWasTerminal /\ mounted /\ isOpen
    /\ last.snap.sync_status = "FAILED" /\ last.snap.updated_at = 4000
    /\ triggerTimestampRef = 10000
    /\ last.delay = 1000 /\ pollTimeoutRef = "poll" /\ timers["poll"] = 1

TypeOK ==
    /\ mounted \in BOOLEAN /\ isOpen \in BOOLEAN
    /\ triggerTimestamp \in TriggerTimes \cup {NullTime, 1000}
                           \cup { StartNow + k * TickMs : k \in 0..MaxTicks }
    /\ triggerTimestampRef \in TriggerTimes \cup {1000}
                           \cup { StartNow + k * TickMs : k \in 0..MaxTicks }
    /\ status \in Snapshots \cup ScenarioSnapshots \cup StepSnapshots \cup {Optimistic}
    /\ pollTimeoutRef \in TimerKinds \cup {NoHandle, StaleHandle}
    /\ pollTimeoutRef \in TimerKinds => timers[pollTimeoutRef] > 0
    /\ Pending(timers) <= MaxTimers
    /\ pollCounterRef \in 0..MaxPollCounter
    /\ inflight \in 0..MaxInflight
    /\ posts \in 0..MaxPosts
    /\ skind \in StoreKinds
    /\ data \in {NoData} \cup Payloads
    /\ requests \in 0..MaxRequests
    /\ awaiting \in 0..MaxCallers
    /\ session \in {NoSession} \cup Users
    /\ lastSettle \in {"none", "resolved", "rejected"}
    /\ disconnectAwait \in {"none", "post", "refresh"}
    /\ actionLoadingId \in {NoId} \cup InsightIds
    /\ expandedCardId \in {NoId} \cup InsightIds
    /\ route \in {"overview", "insights"} /\ pageGen \in 1..MaxMounts
    /\ Cardinality(patches) <= MaxPatches
    /\ toast \in {"none", "success", "error"}
    /\ settingsXero \in {"null", "connected", "disconnected"}
    /\ BagCardinality(truns) <= MaxRuns
    /\ appUser \in {NoSession} \cup Users
    /\ meRequests \in 0..MaxMe
    /\ warnings \in 0..MaxWarnings
    /\ dataQuality \in {"Good", "Mixed", "Low"}
    /\ isAuthorized \in {"null", "true", "false"}
    /\ probes \in 0..MaxProbes
    /\ adminNav \in {"admin", "/overview", "/login", "away"}

====
